---- MODULE Spec2Model ----
(***************************************************************************)
(* PhiFlow state/physics dependency scheduler (CollectivePhysics) and the  *)
(* World facade.                                                           *)
(*                                                                         *)
(* A State is the record [key, tags, age]: its trajectorykey, its tuple of *)
(* tags and its age.  Equality of States is equality of these records.     *)
(*                                                                         *)
(* A Physics is the record [blk, nbl, nblkey, adv].  Its dependencies are  *)
(* the entries that _gather_dependencies walks through (name -> tag or     *)
(* trajectorykey); blocking_dependencies are those flagged blocking, a     *)
(* subset of dependencies.  blk is the tag of the blocking entry ("" when  *)
(* none is declared), nbl the tag of the non-blocking entry ("" when       *)
(* none), nblkey the trajectorykey of a non-blocking entry given by        *)
(* identity (0 when none), adv whether step returns the state with         *)
(* age + dt (Static.step) or with its age untouched (BurgerPhysics.step).  *)
(* The dependent_states handed to physics.step therefore have at most the  *)
(* two names recorded as blk and nbl in a Call.                            *)
(*                                                                         *)
(* CollectivePhysics.step runs in several steps of the model (StepBegin,   *)
(* one Examine per iteration of the inner loop, one SweepEnd per sweep);   *)
(* its locals are variables.  partial is the tuple the partial next        *)
(* collective was constructed with: appending to next_states does not      *)
(* change it, it is replaced at the end of each sweep.                     *)
(*                                                                         *)
(* Spec is the World from its construction, SpecSched one collective step  *)
(* on a populated collective, SpecOverride a World whose entities get      *)
(* their physics with add or through a tracker, SpecObserved a World with  *)
(* observers that is used through its trackers.  SpecPhysics, SpecGetItem  *)
(* and SpecDomain each make calls outside a World: Physics.step of the     *)
(* implementations on a State of some class, CollectiveState.__getitem__,  *)
(* and the construction of a Domain followed by surface_material.          *)
(* SpecEntity steps one entity of a populated World (World.step and        *)
(* World.stepped with an entity).  SpecGrid calls the shape and point      *)
(* methods of a Domain, SpecGeom builds a Box with box[...] and asks       *)
(* value_at, SpecField calls Field.to_field and samples the result.        *)
(* Coordinates of points are held doubled, so that 0.5 is 1.               *)
(* Coordinates of points are held doubled, so that 0.5 is 1.               *)
(* SpecOrder is one collective step on states of none, one or two tags,    *)
(* SpecRegistry a World whose entities are removed while their trackers    *)
(* are kept, SpecStepped a populated World asked for World.stepped,        *)
(* SpecSnapshot a World stepped with States that are not members, SpecAges *)
(* a World that is added to and stepped with dt >= 0.  SpecAddition        *)
(* evaluates left + right with a CollectiveState among the operands, and   *)
(* SpecBuildAdd calls a typed constructor of a World.                      *)
(***************************************************************************)
EXTENDS Integers, Sequences, FiniteSets, TLC

\* ------------------------------------------------------------------ bounds
MaxStates == 2
MaxKeys == 2
MaxSched == 3
MaxTicks == 2
MaxRank == 2

Tags == {"a", "b", "c"}
DtVals == {-1, 0, 1}

VARIABLES
    states,          \* world._state.states
    age,             \* world._state.age
    registry,        \* world.physics.physics: trajectorykey -> Physics
    nextKey,         \* number of TrajectoryKeys allocated so far
    ticks,           \* number of step calls made so far
    pc,              \* "idle" or "sweep" (inside CollectivePhysics.step)
    collectivestate, \* step's argument: [states, age] of the pre-tick collective
    dt,              \* step's argument
    unhandled_states,
    next_states,
    partial,         \* partial_next_collectivestate.states
    sweep,
    todo,            \* rest of tuple(unhandled_states) in the running sweep
    calls,           \* physics.step invocations of the last operation
    err,             \* exception raised by the last operation, "none" if none
    notified,        \* the last operation ran the world.state setter
    lastOp,          \* the last World operation that was called
    lastArg,         \* the State it was called with
    observers,       \* world.observers
    observed,        \* observer -> the world.state it was called with in the
                     \* last operation (no entry: it was not called)
    errstr,          \* the lines of the AssertionError of a step that found a cycle
    returned,        \* the State the last operation returned to its caller,
                     \* None when it returned none, or that it raised
    stepCall,        \* a Physics.step call made directly: arguments and result
    getItem,         \* a CollectiveState.__getitem__ call: arguments and result
    domain,          \* a Domain: constructor arguments, what it stores, a face asked for
    grid,            \* a Domain of some resolution and one shape or points call on it
    geom,            \* a box[...] expression and a value_at call on the Box it gives
    field,           \* a Field.to_field call and a sample_at call on its result
    addition,        \* an expression left + right with a CollectiveState in it
    buildadd         \* a call of a World's typed constructor: the world's
                     \* batch_size and members, the keyword arguments, the
                     \* batch_size the call found, the state it made and the
                     \* members it left

vars == <<states, age, registry, nextKey, ticks, pc, collectivestate, dt,
          unhandled_states, next_states, partial, sweep, todo, calls, err,
          notified, lastOp, lastArg, observers, observed, errstr, returned,
          stepCall, getItem, domain, grid, geom, field, addition, buildadd>>

\* the variables of the calls made outside a World
directCalls == <<stepCall, getItem, domain, grid, geom, field, addition, buildadd>>

\* the variables of a World and of a running CollectivePhysics.step
worldVars == <<states, age, registry, nextKey, ticks, pc, collectivestate, dt,
               unhandled_states, next_states, partial, sweep, todo, calls, err,
               notified, lastOp, lastArg, observers, observed, errstr, returned>>

stepLocals == <<unhandled_states, next_states, partial, sweep, todo>>

\* ----------------------------------------------------------------- helpers
Range(s) == {s[i] : i \in DOMAIN s}

\* slip: the state stays in the list
RemoveNothing(s, x) == s

\* list.remove(x)
RECURSIVE RemoveFirst(_, _)
RemoveFirst(s, x) ==
    IF s = <<>> THEN <<>>
    ELSE IF Head(s) = x THEN Tail(s)
    ELSE <<Head(s)>> \o RemoveFirst(Tail(s), x)

Keys(sts) == {sts[i].key : i \in DOMAIN sts}

DistinctKeys(sts) ==
    \A i, j \in DOMAIN sts : sts[i].key = sts[j].key => i = j

\* ------------------------------------------------------------------ State
NewState(k, tg) == [key |-> k, tags |-> tg, age |-> 0]

CopiedWithAge(s, a) == [s EXCEPT !.age = a]

\* ---------------------------------------------------------------- Physics
NoPhysics == [blk |-> "?", nbl |-> "?", nblkey |-> 0, adv |-> FALSE]

STATIC == [blk |-> "", nbl |-> "", nblkey |-> 0, adv |-> TRUE]

BurgerPhysics == [blk |-> "", nbl |-> "", nblkey |-> 0, adv |-> FALSE]

DefaultPhysics(s) == STATIC

\* slip: the copy is made without the new age
PhysicsStepNoAge(physics, state, d) == state

\* slip: dt is subtracted
PhysicsStepBack(physics, state, d) == CopiedWithAge(state, state.age - d)

PhysicsStep(physics, state, d) ==
    IF physics.adv THEN CopiedWithAge(state, state.age + d) ELSE state

HasBlocking(physics) == physics.blk # ""

HasNonBlocking(physics) == physics.nbl # "" \/ physics.nblkey # 0

\* -------------------------------------------------------- CollectiveState
GetByTag(sts, tag) == SelectSeq(sts, LAMBDA o : tag \in Range(o.tags))

ByKey(sts, k) == SelectSeq(sts, LAMBDA s : s.key = k)

ContainsKey(sts, k) == \E i \in DOMAIN sts : sts[i].key = k

ContainsState(sts, s) == \E i \in DOMAIN sts : sts[i] = s

\* CollectiveState.__getitem__(State): ok is FALSE when the assertion fails
GetItemState(sts, item) ==
    IF ContainsState(sts, item) THEN [ok |-> TRUE, val |-> item]
    ELSE IF Len(ByKey(sts, item.key)) = 1
         THEN [ok |-> TRUE, val |-> ByKey(sts, item.key)[1]]
         ELSE [ok |-> FALSE, val |-> item]

\* slip: the comparison with old_state is lost
StateReplacedAll(sts, old_state, new_state) == [i \in DOMAIN sts |-> new_state]

StateReplaced(sts, old_state, new_state) ==
    [i \in DOMAIN sts |-> IF sts[i] = old_state THEN new_state ELSE sts[i]]

CollectiveAdd(sts, other) == sts \o <<other>>

CollectiveSub(sts, other) == SelectSeq(sts, LAMBDA s : s # other)

\* ------------------------------------------------------ CollectivePhysics
KeyRange == 1..(IF MaxKeys > MaxSched THEN MaxKeys ELSE MaxSched)

NoRegistry == [k \in KeyRange |-> NoPhysics]

\* slip: the override of another trajectorykey is taken when there is one
ForAnyKey(reg, state) ==
    IF \E k \in DOMAIN reg : reg[k] # NoPhysics
    THEN reg[CHOOSE k \in DOMAIN reg : reg[k] # NoPhysics]
    ELSE DefaultPhysics(state)

For(reg, state) ==
    IF reg[state.key] # NoPhysics THEN reg[state.key] ELSE DefaultPhysics(state)

RegistryAdd(reg, k, physics) == [reg EXCEPT ![k] = physics]

\* del self.physics[trajectorykey]: ok is FALSE for the KeyError
RegistryRemove(reg, k) ==
    IF reg[k] # NoPhysics THEN [ok |-> TRUE, val |-> [reg EXCEPT ![k] = NoPhysics]]
    ELSE [ok |-> FALSE, val |-> reg]

\* _gather_dependencies restricted to the blocking entry, looked up in sts
GatherBlocking(physics, sts) ==
    IF HasBlocking(physics) THEN GetByTag(sts, physics.blk) ELSE <<>>

\* _gather_dependencies of the non-blocking entry: by identity or by tag
GatherNonBlocking(physics, sts) ==
    IF physics.nblkey # 0 THEN ByKey(sts, physics.nblkey)
    ELSE IF physics.nbl # "" THEN GetByTag(sts, physics.nbl)
    ELSE <<>>

\* the assertion of CollectiveState.__getitem__(TrajectoryKey)
GatherOk(physics, sts) ==
    physics.nblkey # 0 => Len(ByKey(sts, physics.nblkey)) = 1

\* slip: the keys are searched in the pre-tick collective
AllDependenciesFulfilledInput(physics, all_states, computed_states) ==
    \A i \in DOMAIN GatherBlocking(physics, all_states) :
        ContainsKey(all_states, GatherBlocking(physics, all_states)[i].key)

AllDependenciesFulfilled(physics, all_states, computed_states) ==
    \A i \in DOMAIN GatherBlocking(physics, all_states) :
        ContainsKey(computed_states, GatherBlocking(physics, all_states)[i].key)

\* slip: the blocking entry is looked up in the pre-tick collective
BlockingArgsPreTick(physics, cs, use_partial, part) == GatherBlocking(physics, cs)

\* slip: without a partial next collective the blocking entry is left out
BlockingArgsLeftOut(physics, cs, use_partial, part) ==
    IF use_partial THEN GatherBlocking(physics, part) ELSE <<>>

\* the states substep passes under the blocking name
BlockingArgs(physics, cs, use_partial, part) ==
    IF use_partial THEN GatherBlocking(physics, part) ELSE GatherBlocking(physics, cs)

\* slip: the non-blocking entry is looked up in the partial result
NonBlockingArgsPartial(physics, cs, part) == GatherNonBlocking(physics, part)

\* the states substep passes under the non-blocking name
NonBlockingArgs(physics, cs, part) == GatherNonBlocking(physics, cs)

DependentStates(physics, cs, use_partial, part) ==
    [hasBlk |-> HasBlocking(physics),
     blk    |-> BlockingArgs(physics, cs, use_partial, part),
     hasNbl |-> HasNonBlocking(physics),
     nbl    |-> NonBlockingArgs(physics, cs, part)]

Substep(physics, state, cs, d, use_partial, part) ==
    [ok   |-> GatherOk(physics, cs),
     args |-> DependentStates(physics, cs, use_partial, part),
     next |-> PhysicsStep(physics, state, d)]

\* slip: one sweep too few
SweepLimitShort(cs) == Len(cs) - 1

\* slip: the error is raised after the first sweep that leaves states
SweepLimitOne(cs) == 1

SweepLimit(cs) == Len(cs)

\* slip: the next states are returned in the order they were resolved
OrderedStatesAsResolved(cs, nxt) == [ok |-> TRUE, val |-> nxt]

\* ordered_states of step's success branch; ok is FALSE when a lookup asserts
OrderedStates(cs, nxt) ==
    [ok  |-> \A i \in DOMAIN cs : GetItemState(nxt, cs[i]).ok,
     val |-> [i \in DOMAIN cs |-> GetItemState(nxt, cs[i]).val]]

\* slip: unhandled_states is the sequence of the input itself, so that
\* remove() takes the state out of the input too
InputAliased(cs, unhandled) == [cs EXCEPT !.states = unhandled]

\* the input collective after unhandled_states.remove(state):
\* unhandled_states is a list(...) copy of the input's tuple
InputAfterRemove(cs, unhandled) == cs

Call(state, physics, args, sw, done) ==
    [state |-> state, physics |-> physics, args |-> args, sweep |-> sw,
     resolved |-> done]

NoState == [key |-> 0, tags |-> <<>>, age |-> 0]

NoCollective == [states |-> <<>>, age |-> 0]

\* what a call gives its caller: a State, None, or an exception
Returned(state) == [kind |-> "state", val |-> state]

ReturnedNone == [kind |-> "None", val |-> NoState]

Raised == [kind |-> "raise", val |-> NoState]

ResetLocals ==
    /\ unhandled_states' = <<>>
    /\ next_states' = <<>>
    /\ partial' = <<>>
    /\ todo' = <<>>

\* ------------------------------------------------------- World.state setter
\* world.state as a CollectiveState value
WorldState == [states |-> states, age |-> age]

Observers == {"f", "g"}

NotObserved == [o \in {} |-> NoCollective]

\* slip: the observers are called before self._state is assigned
SetterCallsFirst(obs, old, new) == [o \in obs |-> old]

\* the setter of World.state, called with new while world.state is old: what
\* each observer reads from world.state when it is called
Setter(obs, old, new) == [o \in obs |-> new]

\* --------------------------------------------------------- no direct calls
NotCalled == [kind |-> "not called", val |-> NoState]

NoStepCall ==
    [physics |-> "", default |-> FALSE, cls |-> "", state |-> NoState, dt |-> 0,
     out |-> NotCalled]

NoItem == [type |-> "", tag |-> "", key |-> 0]

NoGetItem == [states |-> <<>>, item |-> NoItem, out |-> [kind |-> "not called", val |-> <<>>]]

\* a boundaries value is a Material or a tuple of boundaries values
Leaf(m) == [leaf |-> TRUE, m |-> m, elems |-> <<>>]

Node(elems) == [leaf |-> FALSE, m |-> "", elems |-> elems]

\* a resolution argument: a scalar or a sequence of axis sizes
Scalar(n) == [scalar |-> TRUE, dims |-> <<n>>]

Sizes(dims) == [scalar |-> FALSE, dims |-> dims]

NoDomain ==
    [res |-> Sizes(<<>>), arg |-> Leaf(""), status |-> "", resolution |-> <<>>,
     boundaries |-> Leaf(""), axis |-> 0, upper |-> 0,
     out |-> [kind |-> "not called", val |-> ""]]

NoGrid ==
    [resolution |-> <<>>, method |-> "", batch_size |-> 0, components |-> 0,
     dimension |-> 0, shape |-> <<>>, shapes |-> <<>>, points |-> <<>>, locs |-> <<>>]

\* a Box; NoBox where there is none
Box(origin, size) ==
    [origin |-> origin, size |-> size,
     upper |-> [i \in DOMAIN origin |-> origin[i] + size[i]]]

NoBox == Box(<<>>, <<>>)

NoGeom ==
    [item |-> [tuple |-> FALSE, dims |-> <<>>], box |-> NoBox, location |-> <<>>,
     called |-> FALSE, out |-> 0]

\* an argument of to_field: its type, and its content for the types that have one
Value(type, number, bounds) == [type |-> type, number |-> number, bounds |-> bounds]

NoValue == Value("", 0, NoBox)

NoField ==
    [value |-> NoValue, out |-> [kind |-> "not called", val |-> NoValue],
     location |-> <<>>, sampled |-> FALSE, sample |-> 0]

\* an operand of +: its type and the states it holds (a State holds itself)
Operand(type, sts) == [type |-> type, states |-> sts]

NoOperand == Operand("", <<>>)

NoAddition ==
    [left |-> NoOperand, right |-> NoOperand,
     out |-> [kind |-> "not called", states |-> <<>>]]

\* batch sizes are positive; 0 stands for None
NoBuildAdd ==
    [batch_size |-> 0, states |-> <<>>, constructor |-> "", explicit |-> FALSE,
     kwarg |-> 0, called |-> FALSE, found |-> 0, err |-> "none", state |-> NoState,
     state_batch_size |-> 0, out |-> <<>>]

\* ------------------------------------------------------------ input pools
TagTuples == {<<t>> : t \in Tags}

Blocking(t) == [blk |-> t, nbl |-> "", nblkey |-> 0, adv |-> TRUE]

NonBlocking(t) == [blk |-> "", nbl |-> t, nblkey |-> 0, adv |-> TRUE]

NonBlockingKey(k) == [blk |-> "", nbl |-> "", nblkey |-> k, adv |-> TRUE]

BlockingAndNonBlocking(t, u) == [blk |-> t, nbl |-> u, nblkey |-> 0, adv |-> TRUE]

\* the (tags, physics) pairs World.add is called with
AddPool ==
    {<<<<"a">>, NoPhysics>>, <<<<"b">>, Blocking("a")>>, <<<<"a">>, Blocking("a")>>,
     <<<<"b">>, NonBlockingKey(1)>>, <<<<"a">>, BurgerPhysics>>}

\* physics of the collectives the scheduler is run on
SchedPool ==
    {Blocking(t) : t \in Tags} \cup {BlockingAndNonBlocking("b", "a")}

\* ------------------------------------------------------------------ World
\* nothing was called outside the World
NoDirectCalls ==
    /\ stepCall = NoStepCall
    /\ getItem = NoGetItem
    /\ domain = NoDomain
    /\ grid = NoGrid
    /\ geom = NoGeom
    /\ field = NoField
    /\ addition = NoAddition
    /\ buildadd = NoBuildAdd

\* the World after construction
WorldInit ==
    /\ states = <<>>
    /\ age = 0
    /\ registry = NoRegistry
    /\ nextKey = 0
    /\ ticks = 0
    /\ pc = "idle"
    /\ collectivestate = NoCollective
    /\ dt = 0
    /\ unhandled_states = <<>>
    /\ next_states = <<>>
    /\ partial = <<>>
    /\ sweep = 0
    /\ todo = <<>>
    /\ calls = <<>>
    /\ err = "none"
    /\ errstr = <<>>
    /\ returned = ReturnedNone
    /\ notified = FALSE
    /\ lastOp = "init"
    /\ lastArg = NoState
    /\ observers = {}
    /\ observed = NotObserved

Init ==
    /\ WorldInit
    /\ NoDirectCalls

\* an operation that does not call CollectivePhysics.step has none of its locals
NoStep ==
    /\ collectivestate' = NoCollective
    /\ dt' = 0
    /\ sweep' = 0
    /\ UNCHANGED <<unhandled_states, next_states, partial, todo>>

\* World.add(state, physics): self.state += state, then the optional override
Add(state, physics) ==
    /\ pc = "idle"
    /\ Len(states) < MaxStates
    /\ states' = CollectiveAdd(states, state)
    /\ age' = 0
    /\ notified' = TRUE
    /\ registry' = IF physics # NoPhysics THEN RegistryAdd(registry, state.key, physics)
                   ELSE registry
    /\ err' = "none"
    /\ errstr' = <<>>
    /\ returned' = ReturnedNone
    /\ calls' = <<>>
    /\ lastOp' = "add"
    /\ lastArg' = state
    /\ observed' = Setter(observers, WorldState, WorldState')
    /\ NoStep
    /\ UNCHANGED <<ticks, pc, observers, directCalls>>

\* a freshly constructed State (new TrajectoryKey) is added
AddNew ==
    /\ nextKey < MaxKeys
    /\ nextKey' = nextKey + 1
    /\ \E in \in AddPool : Add(NewState(nextKey + 1, in[1]), in[2])

\* a State that is already a member is added again
AddMember ==
    /\ UNCHANGED nextKey
    /\ \E i \in DOMAIN states : Add(states[i], NoPhysics)

\* World.remove(state): self.state -= state, then self.physics.remove(key)
Remove ==
    /\ pc = "idle"
    /\ \E i \in DOMAIN states :
        /\ states' = CollectiveSub(states, states[i])
        /\ age' = 0
        /\ notified' = TRUE
        /\ registry' = RegistryRemove(registry, states[i].key).val
        /\ err' = IF RegistryRemove(registry, states[i].key).ok THEN "none" ELSE "KeyError"
        /\ errstr' = <<>>
        /\ returned' = IF err' = "none" THEN ReturnedNone ELSE Raised
        /\ lastArg' = states[i]
    /\ observed' = Setter(observers, WorldState, WorldState')
    /\ calls' = <<>>
    /\ lastOp' = "remove"
    /\ NoStep
    /\ UNCHANGED <<nextKey, ticks, pc, observers, directCalls>>

\* World.clear()
Clear ==
    /\ pc = "idle"
    /\ states' = <<>>
    /\ age' = 0
    /\ registry' = NoRegistry
    /\ notified' = TRUE
    /\ err' = "none"
    /\ errstr' = <<>>
    /\ returned' = ReturnedNone
    /\ calls' = <<>>
    /\ lastOp' = "clear"
    /\ lastArg' = NoState
    /\ observed' = Setter(observers, NoCollective, WorldState')
    /\ NoStep
    /\ UNCHANGED <<nextKey, ticks, pc, observers, directCalls>>

\* the physics a StateTracker's physics is set to
SetPool == {BurgerPhysics}

\* tracker.physics = phys, on the StateTracker of any entity built so far
TrackerSetPhysics ==
    /\ pc = "idle"
    /\ \E k \in 1..nextKey, phys \in SetPool :
        /\ registry' = RegistryAdd(registry, k, phys)
        /\ lastArg' = [NoState EXCEPT !.key = k]
    /\ notified' = FALSE
    /\ observed' = NotObserved
    /\ err' = "none"
    /\ errstr' = <<>>
    /\ returned' = ReturnedNone
    /\ calls' = <<>>
    /\ lastOp' = "set_physics"
    /\ NoStep
    /\ UNCHANGED <<states, age, nextKey, ticks, pc, observers, directCalls>>

\* World.step(state, dt) with an entity: substep, state_replaced, age + dt
StepEntity ==
    /\ pc = "idle"
    /\ ticks < MaxTicks
    /\ ticks' = ticks + 1
    /\ \E i \in DOMAIN states, d \in DtVals :
        LET state == states[i]
            sub == Substep(For(registry, state), state, states, d, FALSE, <<>>)
        IN  /\ dt' = d
            /\ lastArg' = state
            /\ collectivestate' = [states |-> states, age |-> age]
            /\ IF sub.ok
               THEN /\ states' = StateReplaced(states, state, sub.next)
                    /\ age' = age + d
                    /\ notified' = TRUE
                    /\ observed' = Setter(observers, WorldState, WorldState')
                    /\ err' = "none"
                    /\ errstr' = <<>>
                    /\ returned' = Returned(sub.next)
                    /\ calls' = <<Call(state, For(registry, state), sub.args, 0, <<>>)>>
               ELSE /\ UNCHANGED <<states, age>>
                    /\ notified' = FALSE
                    /\ observed' = NotObserved
                    /\ err' = "cardinality"
                    /\ errstr' = <<>>
                    /\ returned' = Raised
                    /\ calls' = <<>>
    /\ lastOp' = "step_entity"
    /\ sweep' = 0
    /\ UNCHANGED <<registry, nextKey, pc, unhandled_states, next_states, partial, todo,
                   observers, directCalls>>

\* slip: the empty collective is returned as it came
EmptyStepSameAge(cs, d) == cs

\* CollectivePhysics.step of a collective without states (lines 91-92)
EmptyStep(cs, d) == [states |-> <<>>, age |-> cs.age + d]

\* World.step(dt) entering CollectivePhysics.step (lines 89-96)
StepBegin ==
    /\ pc = "idle"
    /\ ticks < MaxTicks
    /\ ticks' = ticks + 1
    /\ \E d \in DtVals :
        /\ dt' = d
        /\ IF Len(states) = 0
           THEN /\ states' = EmptyStep(WorldState, d).states
                /\ age' = EmptyStep(WorldState, d).age
                /\ notified' = TRUE
                /\ observed' = Setter(observers, WorldState, WorldState')
                /\ pc' = "idle"
                /\ UNCHANGED <<unhandled_states, todo>>
           ELSE /\ UNCHANGED <<states, age>>
                /\ notified' = FALSE
                /\ observed' = NotObserved
                /\ pc' = "sweep"
                /\ unhandled_states' = states
                /\ todo' = states
    /\ collectivestate' = [states |-> states, age |-> age]
    /\ next_states' = <<>>
    /\ partial' = <<>>
    /\ sweep' = 0
    /\ calls' = <<>>
    /\ err' = "none"
    /\ errstr' = <<>>
    /\ returned' = ReturnedNone
    /\ lastOp' = "step"
    /\ lastArg' = NoState
    /\ UNCHANGED <<registry, nextKey, observers, directCalls>>

\* slip: the states computed so far are stored before the exception leaves
AfterRaisePartial(cs, nxt) == [states |-> nxt, age |-> cs.age]

\* world._state once an exception has left physics.step: the assignment of
\* World.step is not reached
AfterRaise(cs, nxt) == cs

\* errstr of the error branch (lines 109-115): one line for each state left
\* in unhandled_states, with its physics and the state_dict gathered from
\* the input collective
Errstr(unhandled, reg, sts) ==
    [i \in DOMAIN unhandled |->
        [state      |-> unhandled[i],
         physics    |-> For(reg, unhandled[i]),
         depends_on |-> GatherBlocking(For(reg, unhandled[i]), sts)]]

\* the exception leaves CollectivePhysics.step and World.step
Raise(e) ==
    /\ pc' = "idle"
    /\ err' = e
    /\ errstr' = IF e = "cyclic"
                 THEN Errstr(unhandled_states, registry, collectivestate.states)
                 ELSE <<>>
    /\ returned' = Raised
    /\ states' = AfterRaise(collectivestate, next_states).states
    /\ age' = AfterRaise(collectivestate, next_states).age
    /\ ResetLocals
    /\ UNCHANGED <<registry, nextKey, ticks, collectivestate, dt,
                   sweep, calls, notified, lastOp, lastArg, observers, observed,
                   directCalls>>

\* one iteration of the inner loop (lines 98-103)
Examine ==
    /\ pc = "sweep"
    /\ todo # <<>>
    /\ LET state == Head(todo)
           physics == For(registry, state)
           sub == Substep(physics, state, collectivestate.states, dt, TRUE, partial)
       IN  IF AllDependenciesFulfilled(physics, collectivestate.states, partial)
           THEN IF sub.ok
                THEN /\ next_states' = Append(next_states, sub.next)
                     /\ unhandled_states' = RemoveFirst(unhandled_states, state)
                     /\ calls' = Append(calls, Call(state, physics, sub.args, sweep,
                                                     next_states))
                     /\ todo' = Tail(todo)
                     /\ collectivestate' = InputAfterRemove(collectivestate, unhandled_states')
                     /\ UNCHANGED <<states, age, registry, nextKey, ticks, pc,
                                    dt, partial, sweep, err, errstr, returned,
                                    notified, lastOp, lastArg, observers,
                                    observed, directCalls>>
                ELSE Raise("cardinality")
           ELSE /\ todo' = Tail(todo)
                /\ UNCHANGED <<states, age, registry, nextKey, ticks, pc,
                               collectivestate, dt, unhandled_states, next_states,
                               partial, sweep, calls, err, errstr, returned, notified,
                               lastOp, lastArg,
                               observers, observed, directCalls>>

\* the end of a sweep (lines 104-107) and, after the last one, lines 109-115
SweepEnd ==
    /\ pc = "sweep"
    /\ todo = <<>>
    /\ IF Len(unhandled_states) = 0
       THEN LET ordered == OrderedStates(collectivestate.states, next_states)
            IN  IF ordered.ok
                THEN /\ states' = ordered.val
                     /\ age' = collectivestate.age + dt
                     /\ notified' = TRUE
                     /\ observed' = Setter(observers, WorldState, WorldState')
                     /\ pc' = "idle"
                     /\ ResetLocals
                     /\ UNCHANGED <<registry, nextKey, ticks, collectivestate, dt,
                                    sweep, calls, err, errstr, returned, lastOp, lastArg,
                                    observers,
                                    directCalls>>
                ELSE Raise("cardinality")
       ELSE IF sweep + 1 < SweepLimit(collectivestate.states)
            THEN /\ partial' = next_states
                 /\ sweep' = sweep + 1
                 /\ todo' = unhandled_states
                 /\ UNCHANGED <<states, age, registry, nextKey, ticks, pc,
                                collectivestate, dt, unhandled_states, next_states,
                                calls, err, errstr, returned, notified, lastOp,
                                lastArg, observers,
                                observed, directCalls>>
            ELSE Raise("cyclic")

Next ==
    \/ AddNew
    \/ AddMember
    \/ Remove
    \/ Clear
    \/ StepEntity
    \/ StepBegin
    \/ Examine
    \/ SweepEnd

Spec == Init /\ [][Next]_vars

\* ---------------------------------------------- one collective step alone
\* a world of n entities, created and added in key order, about to be stepped
InitSched ==
    /\ \E n \in 1..MaxSched :
        /\ nextKey = n
        /\ \E tg \in [1..n -> TagTuples] : states = [k \in 1..n |-> NewState(k, tg[k])]
        /\ \E ph \in [1..n -> SchedPool \cup {NoPhysics}] :
               registry = [k \in KeyRange |-> IF k <= n THEN ph[k] ELSE NoPhysics]
    /\ age = 0
    /\ ticks = MaxTicks - 1
    /\ pc = "idle"
    /\ collectivestate = NoCollective
    /\ dt = 0
    /\ unhandled_states = <<>>
    /\ next_states = <<>>
    /\ partial = <<>>
    /\ sweep = 0
    /\ todo = <<>>
    /\ calls = <<>>
    /\ err = "none"
    /\ errstr = <<>>
    /\ returned = ReturnedNone
    /\ notified = FALSE
    /\ lastOp = "add"
    /\ lastArg = NoState
    /\ observers = {}
    /\ observed = NotObserved
    /\ NoDirectCalls

NextSched ==
    \/ StepBegin
    \/ Examine
    \/ SweepEnd

SpecSched == InitSched /\ [][NextSched]_vars

\* ------------------------------------------------- World.step, World.stepped
\* of one entity
\* World.stepped(state, dt) with an entity: the substep of World.step(state,
\* dt), the result is returned and nothing is assigned
SteppedEntity ==
    /\ pc = "idle"
    /\ ticks < MaxTicks
    /\ ticks' = ticks + 1
    /\ \E i \in DOMAIN states, d \in DtVals :
        LET state == states[i]
            sub == Substep(For(registry, state), state, states, d, FALSE, <<>>)
        IN  /\ dt' = d
            /\ lastArg' = state
            /\ collectivestate' = [states |-> states, age |-> age]
            /\ IF sub.ok
               THEN /\ err' = "none"
                    /\ errstr' = <<>>
                    /\ returned' = Returned(sub.next)
                    /\ calls' = <<Call(state, For(registry, state), sub.args, 0, <<>>)>>
               ELSE /\ err' = "cardinality"
                    /\ errstr' = <<>>
                    /\ returned' = Raised
                    /\ calls' = <<>>
    /\ notified' = FALSE
    /\ observed' = NotObserved
    /\ lastOp' = "stepped_entity"
    /\ sweep' = 0
    /\ UNCHANGED <<states, age, registry, nextKey, pc, unhandled_states, next_states,
                   partial, todo, observers, directCalls>>

\* a blocking entry by tag together with a non-blocking entry by identity
BlockingAndNonBlockingKey(t, k) == [blk |-> t, nbl |-> "", nblkey |-> k, adv |-> TRUE]

\* physics of the entities that are stepped one at a time
EntityPool ==
    {Blocking("a"), BlockingAndNonBlocking("b", "a"), NonBlockingKey(1),
     BlockingAndNonBlockingKey("a", 2)}

\* a world of n entities, created and added in key order, one of which is
\* about to be stepped
InitEntity ==
    /\ \E n \in 1..MaxStates :
        /\ nextKey = n
        /\ \E tg \in [1..n -> TagTuples] : states = [k \in 1..n |-> NewState(k, tg[k])]
        /\ \E ph \in [1..n -> EntityPool \cup {NoPhysics}] :
               registry = [k \in KeyRange |-> IF k <= n THEN ph[k] ELSE NoPhysics]
    /\ age = 0
    /\ ticks = MaxTicks - 1
    /\ pc = "idle"
    /\ collectivestate = NoCollective
    /\ dt = 0
    /\ unhandled_states = <<>>
    /\ next_states = <<>>
    /\ partial = <<>>
    /\ sweep = 0
    /\ todo = <<>>
    /\ calls = <<>>
    /\ err = "none"
    /\ errstr = <<>>
    /\ returned = ReturnedNone
    /\ notified = FALSE
    /\ lastOp = "add"
    /\ lastArg = NoState
    /\ observers = {}
    /\ observed = NotObserved
    /\ NoDirectCalls

NextEntity ==
    \/ StepEntity
    \/ SteppedEntity

SpecEntity == InitEntity /\ [][NextEntity]_vars

\* World.stepped(None, dt): self.physics.step(self._state, None, dt) passes
\* three positional arguments to step(self, collectivestate, dt=1.0,
\* **dependent_states), which takes two: the call raises a TypeError before
\* the body of step is entered
SteppedWorld ==
    /\ pc = "idle"
    /\ ticks < MaxTicks
    /\ ticks' = ticks + 1
    /\ \E d \in DtVals : dt' = d
    /\ collectivestate' = [states |-> states, age |-> age]
    /\ err' = "TypeError"
    /\ errstr' = <<>>
    /\ returned' = Raised
    /\ calls' = <<>>
    /\ notified' = FALSE
    /\ observed' = NotObserved
    /\ lastOp' = "stepped"
    /\ lastArg' = NoState
    /\ sweep' = 0
    /\ UNCHANGED <<states, age, registry, nextKey, pc, unhandled_states, next_states,
                   partial, todo, observers, directCalls>>

NextStepped ==
    \/ StepEntity
    \/ SteppedEntity
    \/ SteppedWorld

SpecStepped == InitEntity /\ [][NextStepped]_vars

\* ------------------------------- World.step of a State that is not a member
\* World.step(state, dt) with the State the previous operation was called
\* with, when that is no member (any more): the snapshot of an entity taken
\* before it was stepped, or an entity that was removed
StepNonMember ==
    /\ pc = "idle"
    /\ ticks < MaxTicks
    /\ ticks' = ticks + 1
    /\ lastArg # NoState
    /\ ~ContainsState(states, lastArg)
    /\ \E d \in DtVals :
        LET state == lastArg
            sub == Substep(For(registry, state), state, states, d, FALSE, <<>>)
        IN  /\ dt' = d
            /\ lastArg' = state
            /\ collectivestate' = [states |-> states, age |-> age]
            /\ IF sub.ok
               THEN /\ states' = StateReplaced(states, state, sub.next)
                    /\ age' = age + d
                    /\ notified' = TRUE
                    /\ observed' = Setter(observers, WorldState, WorldState')
                    /\ err' = "none"
                    /\ errstr' = <<>>
                    /\ returned' = Returned(sub.next)
                    /\ calls' = <<Call(state, For(registry, state), sub.args, 0, <<>>)>>
               ELSE /\ UNCHANGED <<states, age>>
                    /\ notified' = FALSE
                    /\ observed' = NotObserved
                    /\ err' = "cardinality"
                    /\ errstr' = <<>>
                    /\ returned' = Raised
                    /\ calls' = <<>>
    /\ lastOp' = "step_nonmember"
    /\ sweep' = 0
    /\ UNCHANGED <<registry, nextKey, pc, unhandled_states, next_states, partial, todo,
                   observers, directCalls>>

NextSnapshot ==
    \/ AddNew
    \/ Remove
    \/ StepEntity
    \/ StepNonMember

SpecSnapshot == Init /\ [][NextSnapshot]_vars

\* ------------------------------------------------ blocking-dependency graph
\* state i declares a blocking dependency that state j matches
BlockingEdge(sts, reg, i, j) ==
    /\ HasBlocking(For(reg, sts[i]))
    /\ For(reg, sts[i]).blk \in Range(sts[j].tags)

RECURSIVE BlockingPath(_, _, _, _, _)
BlockingPath(sts, reg, i, j, n) ==
    /\ n > 0
    /\ \/ BlockingEdge(sts, reg, i, j)
       \/ \E k \in DOMAIN sts :
              BlockingEdge(sts, reg, i, k) /\ BlockingPath(sts, reg, k, j, n - 1)

HasCycle(sts, reg) == \E i \in DOMAIN sts : BlockingPath(sts, reg, i, i, Len(sts))

StepReturned == lastOp = "step" /\ pc = "idle" /\ err = "none"

KeySeq(sts) == [i \in DOMAIN sts |-> sts[i].key]

\* ------------------------------------------- Physics.step called directly
\* the classes of the states: State itself, Obstacle, a FieldEffect whose
\* field is a GeometryMask of one geometry, Burger, Burgers
Classes == {"State", "Obstacle", "FieldEffect", "Burger", "Burgers"}

Implementations == {"Static", "BurgersPhysics", "BurgerPhysics", "GeometryMovement"}

AgeVals == {0, 1}

\* cls.default_physics(): overridden by Burger and Burgers; FieldEffect is
\* taken to inherit it from State like Obstacle does
DefaultPhysicsOf(cls) ==
    IF cls = "Burger" THEN "BurgerPhysics"
    ELSE IF cls = "Burgers" THEN "BurgersPhysics"
    ELSE "Static"

StaticStep(state, d) == Returned(CopiedWithAge(state, state.age + d))

\* state.velocity and state.viscosity are attributes of a Burgers only
BurgersPhysicsStep(cls, state, d) ==
    IF cls = "Burgers" THEN Returned(CopiedWithAge(state, state.age + d))
    ELSE Raised

\* step(self, state, dependent_states, dt=1.0): the copy is made with a new
\* velocity only; the second positional argument is not the dt of the body
BurgerPhysicsStep(cls, state, d) ==
    IF cls = "Burger" THEN Returned(state)
    ELSE Raised

\* slip: a new Obstacle is constructed instead of copying obj
GeometryMovementStepNew(cls, obj, d) ==
    Returned([NewState(MaxKeys + 1, obj.tags) EXCEPT !.age = obj.age + d])

\* no branch returns for an obj that is neither Obstacle nor FieldEffect
GeometryMovementStep(cls, obj, d) ==
    IF cls = "Obstacle" THEN Returned(CopiedWithAge(obj, obj.age + d))
    ELSE IF cls = "FieldEffect" THEN Returned(CopiedWithAge(obj, obj.age + d))
    ELSE ReturnedNone

ImplementationStep(physics, cls, state, d) ==
    CASE physics = "Static" -> StaticStep(state, d)
      [] physics = "BurgersPhysics" -> BurgersPhysicsStep(cls, state, d)
      [] physics = "BurgerPhysics" -> BurgerPhysicsStep(cls, state, d)
      [] physics = "GeometryMovement" -> GeometryMovementStep(cls, state, d)

\* a State of some class and a Physics (any implementation, or the one its
\* default_physics() returns) about to be stepped by dt
InitPhysics ==
    /\ \E cls \in Classes, k \in 1..MaxKeys, tg \in TagTuples, a \in AgeVals,
          d \in DtVals, default \in BOOLEAN :
          \E physics \in (IF default THEN {DefaultPhysicsOf(cls)} ELSE Implementations) :
              stepCall = [physics |-> physics, default |-> default, cls |-> cls,
                          state |-> CopiedWithAge(NewState(k, tg), a),
                          dt |-> d, out |-> NotCalled]
    /\ getItem = NoGetItem
    /\ domain = NoDomain
    /\ grid = NoGrid
    /\ geom = NoGeom
    /\ field = NoField
    /\ addition = NoAddition
    /\ buildadd = NoBuildAdd
    /\ WorldInit

\* physics.step(state, dt)
PhysicsStepCall ==
    /\ stepCall.out = NotCalled
    /\ stepCall.physics # ""
    /\ stepCall' = [stepCall EXCEPT !.out = ImplementationStep(stepCall.physics,
                                               stepCall.cls, stepCall.state, stepCall.dt)]
    /\ UNCHANGED <<worldVars, getItem, domain, grid, geom, field, addition, buildadd>>

NextPhysics == PhysicsStepCall

SpecPhysics == InitPhysics /\ [][NextPhysics]_vars

\* -------------------------------------- CollectiveState.__getitem__ alone
\* an item is a string (a tag) or a TrajectoryKey
TagItem(t) == [type |-> "str", tag |-> t, key |-> 0]

KeyItem(k) == [type |-> "TrajectoryKey", tag |-> "", key |-> k]

\* slip: the assertion on the number of matches is missing
GetItemFirst(sts, item) ==
    IF item.type = "TrajectoryKey"
    THEN IF Len(ByKey(sts, item.key)) >= 1
         THEN [kind |-> "state", val |-> <<ByKey(sts, item.key)[1]>>]
         ELSE [kind |-> "raise", val |-> <<>>]
    ELSE [kind |-> "list", val |-> GetByTag(sts, item.tag)]

\* collectivestate[item]: a state (val holds just it), a list or an
\* AssertionError
GetItem(sts, item) ==
    IF item.type = "TrajectoryKey"
    THEN IF Len(ByKey(sts, item.key)) = 1
         THEN [kind |-> "state", val |-> <<ByKey(sts, item.key)[1]>>]
         ELSE [kind |-> "raise", val |-> <<>>]
    ELSE [kind |-> "list", val |-> GetByTag(sts, item.tag)]

\* the tags of the member states: none, one or two
TagPool == {<<>>, <<"a">>, <<"a", "b">>}

\* the states a collective is made of; a state can be a member twice
MemberPool == {NewState(k, tg) : k \in 1..MaxKeys, tg \in TagPool}

\* a collective of up to MaxSched states and an item to look up in it
InitGetItem ==
    /\ \E n \in 0..MaxSched :
          \E sts \in [1..n -> MemberPool] :
              \E item \in {TagItem(t) : t \in Tags} \cup {KeyItem(k) : k \in 1..MaxKeys} :
                  getItem = [states |-> sts, item |-> item,
                             out |-> [kind |-> "not called", val |-> <<>>]]
    /\ stepCall = NoStepCall
    /\ domain = NoDomain
    /\ grid = NoGrid
    /\ geom = NoGeom
    /\ field = NoField
    /\ addition = NoAddition
    /\ buildadd = NoBuildAdd
    /\ WorldInit

GetItemCall ==
    /\ getItem.out.kind = "not called"
    /\ getItem.item # NoItem
    /\ getItem' = [getItem EXCEPT !.out = GetItem(getItem.states, getItem.item)]
    /\ UNCHANGED <<worldVars, stepCall, domain, grid, geom, field, addition, buildadd>>

NextGetItem == GetItemCall

SpecGetItem == InitGetItem /\ [][NextGetItem]_vars

\* ------------------------------------------------------------------ Domain
Materials == {"OPEN", "CLOSED"}

\* _collapse_equals(obj, leaf_type=Material)
RECURSIVE CollapseEquals(_)
CollapseEquals(obj) ==
    IF obj.leaf THEN obj
    ELSE LET list == [i \in DOMAIN obj.elems |-> CollapseEquals(obj.elems[i])]
         IN  IF \E i \in 2..Len(list) : list[i] # list[1] THEN Node(list)
             ELSE list[1]

\* the boundaries arguments the constructor accepts for a rank: a Material,
\* or one element per axis, each a Material or a (lower, upper) pair
ValidBoundaries(rank) ==
    {Leaf(m) : m \in Materials}
    \cup {Node(elems) : elems \in
              [1..rank -> {Leaf(m) : m \in Materials}
                          \cup {Node(<<Leaf(l), Leaf(u)>>) : l, u \in Materials}]}

\* Domain.surface_material(axis, upper_boundary); an index out of range raises
SurfaceMaterial(boundaries, axis, upper_boundary) ==
    IF boundaries.leaf THEN [kind |-> "material", val |-> boundaries.m]
    ELSE IF axis + 1 \notin DOMAIN boundaries.elems THEN [kind |-> "raise", val |-> ""]
    ELSE LET dim_boundaries == boundaries.elems[axis + 1]
         IN  IF dim_boundaries.leaf THEN [kind |-> "material", val |-> dim_boundaries.m]
             ELSE [kind |-> "material", val |-> dim_boundaries.elems[upper_boundary + 1].m]

\* what is passed as boundaries where a Material or a sequence is expected
None == Leaf("None")

\* the per-axis boundaries sequences of n elements
PerAxis(n) == ValidBoundaries(n) \ {Leaf(m) : m \in Materials}

\* the boundaries arguments a Domain is constructed with: those the
\* constructor accepts for some rank up to MaxRank + 1, the empty sequence
\* and None
BoundariesArgs ==
    {None} \cup {Leaf(m) : m \in Materials} \cup UNION {PerAxis(n) : n \in 0..(MaxRank + 1)}

\* the resolution arguments: a scalar, or one size for each of up to MaxRank axes
ResolutionArgs ==
    {Scalar(2)} \cup {Sizes([i \in 1..r |-> 2]) : r \in 1..MaxRank}

\* Domain.resolution: a scalar is wrapped into a list
Resolution(res) == IF res.scalar THEN <<res.dims[1]>> ELSE res.dims

\* Domain.rank
Rank(resolution) == Len(resolution)

\* slip: the stored boundaries are not collapsed below the top level
BoundariesCollapseTop(boundaries, rank) ==
    IF boundaries.leaf /\ boundaries.m \notin Materials
    THEN [kind |-> "raise", val |-> Leaf("")]
    ELSE IF ~boundaries.leaf /\ Len(boundaries.elems) # rank
    THEN [kind |-> "raise", val |-> Leaf("")]
    ELSE IF boundaries.leaf \/ \E i \in 2..Len(boundaries.elems) :
                                   boundaries.elems[i] # boundaries.elems[1]
    THEN [kind |-> "boundaries", val |-> boundaries]
    ELSE [kind |-> "boundaries", val |-> boundaries.elems[1]]

\* Domain.boundaries, the validator of the constructor argument: the two
\* assertions, then _collapse_equals
Boundaries(boundaries, rank) ==
    IF boundaries.leaf /\ boundaries.m \notin Materials
    THEN [kind |-> "raise", val |-> Leaf("")]
    ELSE IF ~boundaries.leaf /\ Len(boundaries.elems) # rank
    THEN [kind |-> "raise", val |-> Leaf("")]
    ELSE [kind |-> "boundaries", val |-> CollapseEquals(boundaries)]

\* the arguments of a Domain that is about to be constructed
InitDomain ==
    /\ \E res \in ResolutionArgs, arg \in BoundariesArgs :
          domain = [NoDomain EXCEPT !.res = res, !.arg = arg, !.status = "new"]
    /\ stepCall = NoStepCall
    /\ getItem = NoGetItem
    /\ grid = NoGrid
    /\ geom = NoGeom
    /\ field = NoField
    /\ addition = NoAddition
    /\ buildadd = NoBuildAdd
    /\ WorldInit

\* Domain(resolution, boundaries)
DomainConstruct ==
    /\ domain.status = "new"
    /\ LET resolution == Resolution(domain.res)
           validated == Boundaries(domain.arg, Rank(resolution))
       IN  domain' = IF validated.kind = "raise"
                     THEN [domain EXCEPT !.status = "raise"]
                     ELSE [domain EXCEPT !.status = "constructed",
                                         !.resolution = resolution,
                                         !.boundaries = validated.val]
    /\ UNCHANGED <<worldVars, stepCall, getItem, grid, geom, field, addition, buildadd>>

\* domain.surface_material(axis, upper_boundary) for a face of the domain
SurfaceMaterialCall ==
    /\ domain.status = "constructed"
    /\ domain.out.kind = "not called"
    /\ \E axis \in 0..(Rank(domain.resolution) - 1), upper \in {0, 1} :
          domain' = [domain EXCEPT !.axis = axis, !.upper = upper,
                                   !.out = SurfaceMaterial(domain.boundaries, axis, upper)]
    /\ UNCHANGED <<worldVars, stepCall, getItem, grid, geom, field, addition, buildadd>>

NextDomain ==
    \/ DomainConstruct
    \/ SurfaceMaterialCall

SpecDomain == InitDomain /\ [][NextDomain]_vars

\* ------------------------------------------------ Domain shapes and points
\* the axis sizes, batch sizes and component counts the Domains are tried with
AxisSizes == {1, 2, 4}

BatchSizes == {1, 2}

ComponentCounts == {1, 2, 3}

\* the resolutions of the Domains: one size for each of up to MaxRank axes
Resolutions == UNION {[1..r -> AxisSizes] : r \in 1..MaxRank}

\* tensor_shape(batch_size, resolution, components)
TensorShape(batch_size, resolution, components) ==
    <<batch_size>> \o resolution \o <<components>>

\* slip: the batch axis is counted as axis 0
Extend1Batch(shape, axis) == [shape EXCEPT ![axis + 1] = @ + 1]

\* _extend1(shape, axis): shape[axis+1] += 1 on a list indexed from 0
Extend1(shape, axis) == [shape EXCEPT ![axis + 2] = @ + 1]

\* the shape of the CenteredGrid that Domain.centered_shape returns
CenteredShape(resolution, components, batch_size) ==
    TensorShape(batch_size, resolution, components)

\* the shapes of the component grids of the StaggeredGrid that
\* Domain.staggered_shape returns, one for each axis
StaggeredShape(resolution, batch_size) ==
    [i \in 1..Rank(resolution) |-> Extend1(TensorShape(batch_size, resolution, 1), i - 1)]

\* np.arange(start, stop, 1); coordinates are held doubled, so that 0.5 is 1
Arange(start2, stop2) ==
    [i \in 1..((stop2 - start2 + 1) \div 2) |-> start2 + 2 * (i - 1)]

\* Domain.center_points(): the coordinates along each axis that np.meshgrid
\* combines into the points
CenterPoints(resolution) ==
    [i \in DOMAIN resolution |-> Arange(1, 2 * resolution[i] + 1)]

\* Domain.staggered_points(dimension): dim runs over the sizes in
\* self.resolution and is compared with the axis index dimension
StaggeredPoints(resolution, dimension) ==
    [i \in DOMAIN resolution |->
        IF resolution[i] # dimension THEN Arange(1, 2 * resolution[i] + 3)
        ELSE Arange(0, 2 * resolution[i] + 2)]

\* the locations Field.sample_grid(grid, staggered) samples at: one set of
\* points, or one for each component
SampleGridLocations(resolution, staggered) ==
    IF staggered
    THEN [dim \in 1..Rank(resolution) |-> StaggeredPoints(resolution, dim - 1)]
    ELSE <<CenterPoints(resolution)>>

\* a Domain of some resolution
InitGrid ==
    /\ \E resolution \in Resolutions : grid = [NoGrid EXCEPT !.resolution = resolution]
    /\ stepCall = NoStepCall
    /\ getItem = NoGetItem
    /\ domain = NoDomain
    /\ geom = NoGeom
    /\ field = NoField
    /\ addition = NoAddition
    /\ buildadd = NoBuildAdd
    /\ WorldInit

\* domain.centered_shape(components, batch_size)
CenteredShapeCall ==
    /\ grid.method = "" /\ grid.resolution # <<>>
    /\ \E components \in ComponentCounts, batch_size \in BatchSizes :
          grid' = [grid EXCEPT !.method = "centered_shape",
                               !.components = components, !.batch_size = batch_size,
                               !.shape = CenteredShape(grid.resolution, components,
                                                       batch_size)]
    /\ UNCHANGED <<worldVars, stepCall, getItem, domain, geom, field, addition, buildadd>>

\* domain.staggered_shape(batch_size)
StaggeredShapeCall ==
    /\ grid.method = "" /\ grid.resolution # <<>>
    /\ \E batch_size \in BatchSizes :
          grid' = [grid EXCEPT !.method = "staggered_shape", !.batch_size = batch_size,
                               !.shapes = StaggeredShape(grid.resolution, batch_size)]
    /\ UNCHANGED <<worldVars, stepCall, getItem, domain, geom, field, addition, buildadd>>

\* domain.staggered_points(dimension) for an axis of the domain
StaggeredPointsCall ==
    /\ grid.method = "" /\ grid.resolution # <<>>
    /\ \E dimension \in 0..(Rank(grid.resolution) - 1) :
          grid' = [grid EXCEPT !.method = "staggered_points", !.dimension = dimension,
                               !.points = StaggeredPoints(grid.resolution, dimension)]
    /\ UNCHANGED <<worldVars, stepCall, getItem, domain, geom, field, addition, buildadd>>

\* field.sample_grid(domain, staggered): the locations it samples at
SampleGridCall ==
    /\ grid.method = "" /\ grid.resolution # <<>>
    /\ \E staggered \in BOOLEAN :
          grid' = [grid EXCEPT !.method = IF staggered THEN "sample_grid staggered"
                                          ELSE "sample_grid",
                               !.locs = SampleGridLocations(grid.resolution, staggered)]
    /\ UNCHANGED <<worldVars, stepCall, getItem, domain, geom, field, addition, buildadd>>

NextGrid ==
    \/ CenteredShapeCall
    \/ StaggeredShapeCall
    \/ StaggeredPointsCall
    \/ SampleGridCall

SpecGrid == InitGrid /\ [][NextGrid]_vars

\* ------------------------------------------------------------ Box, box[...]
\* an entry of a box[...] expression: a number k or a slice start:stop
IntDim(k) == [type |-> "int", start |-> k, stop |-> k]

SliceDim(start, stop) == [type |-> "slice", start |-> start, stop |-> stop]

\* box[...] with one entry for each axis, or with one entry that is not in a tuple
TupleItem(dims) == [tuple |-> TRUE, dims |-> dims]

SingleItem(dim) == [tuple |-> FALSE, dims |-> <<dim>>]

\* BoxGenerator.__getitem__(item)
BoxGeneratorGetItem(item) ==
    LET dims == IF item.tuple THEN item.dims ELSE <<item.dims[1]>>
    IN  Box([i \in DOMAIN dims |-> dims[i].start],
            [i \in DOMAIN dims |-> IF dims[i].type = "int" THEN 1
                                   ELSE dims[i].stop - dims[i].start])

\* slip: the upper bound is left out of the box
ValueAtHalfOpen(box, global_position) ==
    IF \A i \in DOMAIN global_position :
           global_position[i] >= box.origin[i] /\ global_position[i] < box.upper[i]
    THEN 1 ELSE 0

\* Box.value_at(global_position) for one position
ValueAt(box, global_position) ==
    IF \A i \in DOMAIN global_position :
           global_position[i] >= box.origin[i] /\ global_position[i] <= box.upper[i]
    THEN 1 ELSE 0

\* the entries box[...] is called with and the coordinates of the positions
DimPool == {IntDim(1), IntDim(5), SliceDim(0, 2), SliceDim(6, 10), SliceDim(1, 1)}

Coordinates == {0, 1, 2, 5, 7, 10, 11}

ItemPool ==
    {SingleItem(dim) : dim \in DimPool}
    \cup UNION {{TupleItem(dims) : dims \in [1..r -> DimPool]} : r \in 1..MaxRank}

\* a box[...] expression and a position of as many coordinates
InitGeom ==
    /\ \E item \in ItemPool :
          \E location \in [DOMAIN item.dims -> Coordinates] :
              geom = [NoGeom EXCEPT !.item = item, !.location = location]
    /\ stepCall = NoStepCall
    /\ getItem = NoGetItem
    /\ domain = NoDomain
    /\ grid = NoGrid
    /\ field = NoField
    /\ addition = NoAddition
    /\ buildadd = NoBuildAdd
    /\ WorldInit

\* box[item]
BoxGetItemCall ==
    /\ geom.item.dims # <<>>
    /\ geom.box = NoBox
    /\ geom' = [geom EXCEPT !.box = BoxGeneratorGetItem(geom.item)]
    /\ UNCHANGED <<worldVars, stepCall, getItem, domain, grid, field, addition, buildadd>>

\* box[item].value_at(location)
ValueAtCall ==
    /\ geom.box # NoBox
    /\ ~geom.called
    /\ geom' = [geom EXCEPT !.called = TRUE, !.out = ValueAt(geom.box, geom.location)]
    /\ UNCHANGED <<worldVars, stepCall, getItem, domain, grid, field, addition, buildadd>>

NextGeom ==
    \/ BoxGetItemCall
    \/ ValueAtCall

SpecGeom == InitGeom /\ [][NextGeom]_vars

\* ------------------------------------------------------------------- Field
FieldTypes == {"ConstantField"}

GeometryTypes == {"Box"}

OtherTypes == {"str", "NoneType", "ndarray"}

\* ConstantField(bounds, value); bounds is NoBox for None
ConstantField(bounds, value) == Value("ConstantField", value, bounds)

\* slip: the geometry is not kept as the bounds of the field
ToFieldUnbounded(value) ==
    IF value.type \in FieldTypes THEN [kind |-> "field", val |-> value]
    ELSE IF value.type \in GeometryTypes
    THEN [kind |-> "field", val |-> ConstantField(NoBox, 1)]
    ELSE IF value.type = "Number"
    THEN [kind |-> "field", val |-> ConstantField(NoBox, value.number)]
    ELSE [kind |-> "ValueError", val |-> NoValue]

\* Field.to_field(value)
ToField(value) ==
    IF value.type \in FieldTypes THEN [kind |-> "field", val |-> value]
    ELSE IF value.type \in GeometryTypes
    THEN [kind |-> "field", val |-> ConstantField(value.bounds, 1)]
    ELSE IF value.type = "Number"
    THEN [kind |-> "field", val |-> ConstantField(NoBox, value.number)]
    ELSE [kind |-> "ValueError", val |-> NoValue]

\* ConstantField.sample_at(location) for one location
SampleAt(constantfield, location) ==
    IF constantfield.bounds = NoBox THEN constantfield.number
    ELSE ValueAt(constantfield.bounds, location) * constantfield.number

\* the geometries, numbers and arguments to_field is called with
BoxPool ==
    {BoxGeneratorGetItem(TupleItem(<<SliceDim(0, 2)>>)),
     BoxGeneratorGetItem(TupleItem(<<SliceDim(0, 2), SliceDim(6, 10)>>))}

Numbers == {-1, 0, 2}

ValuePool ==
    {Value("Number", v, NoBox) : v \in Numbers}
    \cup {Value("Box", 0, b) : b \in BoxPool}
    \cup {ConstantField(b, v) : b \in BoxPool \cup {NoBox}, v \in Numbers}
    \cup {Value(t, 0, NoBox) : t \in OtherTypes}

\* an argument of to_field and a location of as many coordinates as its
\* geometry has, if it has one
InitField ==
    /\ \E value \in ValuePool :
          \E r \in (IF value.bounds = NoBox THEN 1..2 ELSE {Len(value.bounds.origin)}) :
              \E location \in [1..r -> {1, 5, 7}] :
                  field = [NoField EXCEPT !.value = value, !.location = location]
    /\ stepCall = NoStepCall
    /\ getItem = NoGetItem
    /\ domain = NoDomain
    /\ grid = NoGrid
    /\ geom = NoGeom
    /\ addition = NoAddition
    /\ buildadd = NoBuildAdd
    /\ WorldInit

\* Field.to_field(value)
ToFieldCall ==
    /\ field.value # NoValue
    /\ field.out.kind = "not called"
    /\ field' = [field EXCEPT !.out = ToField(field.value)]
    /\ UNCHANGED <<worldVars, stepCall, getItem, domain, grid, geom, addition, buildadd>>

\* Field.to_field(value).sample_at(location)
SampleAtCall ==
    /\ field.out.kind = "field"
    /\ ~field.sampled
    /\ field' = [field EXCEPT !.sampled = TRUE,
                              !.sample = SampleAt(field.out.val, field.location)]
    /\ UNCHANGED <<worldVars, stepCall, getItem, domain, grid, geom, addition, buildadd>>

NextField ==
    \/ ToFieldCall
    \/ SampleAtCall

SpecField == InitField /\ [][NextField]_vars

\* ------------------------------ a World whose entities come and go while
\* their trackers are kept
NextRegistry ==
    \/ AddNew
    \/ Remove
    \/ Clear
    \/ TrackerSetPhysics
    \/ StepBegin
    \/ Examine
    \/ SweepEnd

SpecRegistry == Init /\ [][NextRegistry]_vars

\* ---------------------------- a World that is added to and stepped forward
\* every physics in force advances the age of its state
AllAdvance(reg) == \A k \in KeyRange : reg[k] = NoPhysics \/ reg[k].adv

\* a new entity, of age 0, is added with an age-advancing physics or none
AddAdvancing == AddNew /\ AllAdvance(registry')

\* World.step(dt=dt) with dt >= 0
ForwardStepBegin == StepBegin /\ dt' >= 0

\* World.step(entity, dt) with dt >= 0
ForwardStepEntity == StepEntity /\ dt' >= 0

NextAges ==
    \/ AddAdvancing
    \/ ForwardStepBegin
    \/ Examine
    \/ SweepEnd
    \/ ForwardStepEntity

SpecAges == Init /\ [][NextAges]_vars

\* ------------------------------- one collective step, states of several tags
\* physics that wait for the states of one tag
OrderPool == {Blocking(t) : t \in Tags}

\* a world of n entities with none, one or two tags, created and added in
\* key order, about to be stepped
InitOrder ==
    /\ \E n \in 1..MaxSched :
        /\ nextKey = n
        /\ \E tg \in [1..n -> TagPool] : states = [k \in 1..n |-> NewState(k, tg[k])]
        /\ \E ph \in [1..n -> OrderPool \cup {NoPhysics}] :
               registry = [k \in KeyRange |-> IF k <= n THEN ph[k] ELSE NoPhysics]
    /\ age = 0
    /\ ticks = MaxTicks - 1
    /\ pc = "idle"
    /\ collectivestate = NoCollective
    /\ dt = 0
    /\ unhandled_states = <<>>
    /\ next_states = <<>>
    /\ partial = <<>>
    /\ sweep = 0
    /\ todo = <<>>
    /\ calls = <<>>
    /\ err = "none"
    /\ errstr = <<>>
    /\ returned = ReturnedNone
    /\ notified = FALSE
    /\ lastOp = "add"
    /\ lastArg = NoState
    /\ observers = {}
    /\ observed = NotObserved
    /\ NoDirectCalls

NextOrder ==
    \/ StepBegin
    \/ Examine
    \/ SweepEnd

SpecOrder == InitOrder /\ [][NextOrder]_vars

\* ------------------------------------------- CollectiveState.__add__ alone
\* CollectiveState.__add__(self, other) (lines 16-23): self's states first
CollectiveStateAdd(self, other) ==
    IF other.type = "CollectiveState"
    THEN [kind |-> "CollectiveState", states |-> self.states \o other.states]
    ELSE IF other.type = "State"
    THEN [kind |-> "CollectiveState", states |-> CollectiveAdd(self.states, other.states[1])]
    ELSE IF other.type \in {"tuple", "list"}
    THEN [kind |-> "CollectiveState", states |-> self.states \o other.states]
    ELSE [kind |-> "ValueError", states |-> <<>>]

\* left + right: left.__add__(right) when left is a CollectiveState,
\* otherwise right.__radd__(left), and __radd__ = __add__ (line 25)
Plus(left, right) ==
    IF left.type = "CollectiveState" THEN CollectiveStateAdd(left, right)
    ELSE IF right.type = "CollectiveState" THEN CollectiveStateAdd(right, left)
    ELSE [kind |-> "TypeError", states |-> <<>>]

\* the member states of the operands: up to MaxStates of MaxKeys entities
OperandStates == UNION {[1..n -> {NewState(k, <<"a">>) : k \in 1..MaxKeys}] : n \in 0..MaxStates}

Operands ==
    {Operand(t, sts) : t \in {"CollectiveState", "tuple", "list"}, sts \in OperandStates}
    \cup {Operand("State", <<NewState(k, <<"a">>)>>) : k \in 1..MaxKeys}
    \cup {Operand("int", <<>>)}

\* two operands, a CollectiveState among them
InitAddition ==
    /\ \E left, right \in Operands :
        /\ "CollectiveState" \in {left.type, right.type}
        /\ addition = [NoAddition EXCEPT !.left = left, !.right = right]
    /\ stepCall = NoStepCall
    /\ getItem = NoGetItem
    /\ domain = NoDomain
    /\ grid = NoGrid
    /\ geom = NoGeom
    /\ field = NoField
    /\ buildadd = NoBuildAdd
    /\ WorldInit

PlusCall ==
    /\ addition.out.kind = "not called"
    /\ addition.left # NoOperand
    /\ addition' = [addition EXCEPT !.out = Plus(addition.left, addition.right)]
    /\ UNCHANGED <<worldVars, stepCall, getItem, domain, grid, geom, field, buildadd>>

NextAddition == PlusCall

SpecAddition == InitAddition /\ [][NextAddition]_vars

\* ------------------------------------- a World with observers and trackers
\* slip: the tracker keeps the state it was created for
TrackerStateKept(sts, k) == [kind |-> "state", val |-> <<NewState(k, <<"a">>)>>]

\* StateTracker.state of the tracker with trajectorykey k: world.state[k]
TrackerState(sts, k) == GetItem(sts, KeyItem(k))

\* world.observers.add(o)
Observe ==
    /\ pc = "idle"
    /\ \E o \in Observers \ observers : observers' = observers \cup {o}
    /\ UNCHANGED <<states, age, registry, nextKey, ticks, pc, collectivestate, dt,
                   stepLocals, calls, err, errstr, returned, notified, lastOp,
                   lastArg, observed,
                   directCalls>>

\* the tags of the entities built by the typed constructors
BuildPool == {<<"a">>}

\* world.Obstacle(...) and the like: construct, world.add(state), StateTracker
Build ==
    /\ nextKey < MaxKeys
    /\ nextKey' = nextKey + 1
    /\ \E tg \in BuildPool : Add(NewState(nextKey + 1, tg), NoPhysics)

\* tracker.age = a on the StateTracker of any entity built so far:
\* self.state = self.state.copied_with(age=a), through both accessors of state
TrackerSetAttr ==
    /\ pc = "idle"
    /\ age' = age
    /\ \E k \in 1..nextKey, a \in AgeVals :
        LET got == TrackerState(states, k)
        IN  /\ lastArg' = [NoState EXCEPT !.key = k]
            /\ IF got.kind = "state"
               THEN /\ states' = StateReplaced(states, got.val[1],
                                               CopiedWithAge(got.val[1], a))
                    /\ notified' = TRUE
                    /\ observed' = Setter(observers, WorldState, WorldState')
                    /\ err' = "none"
                    /\ errstr' = <<>>
                    /\ returned' = ReturnedNone
               ELSE /\ UNCHANGED states
                    /\ notified' = FALSE
                    /\ observed' = NotObserved
                    /\ err' = "cardinality"
                    /\ errstr' = <<>>
                    /\ returned' = Raised
    /\ calls' = <<>>
    /\ lastOp' = "set_attr"
    /\ NoStep
    /\ UNCHANGED <<registry, nextKey, ticks, pc, observers, directCalls>>

\* world.state = CollectiveState()
AssignState ==
    /\ pc = "idle"
    /\ states' = NoCollective.states
    /\ age' = NoCollective.age
    /\ notified' = TRUE
    /\ observed' = Setter(observers, WorldState, WorldState')
    /\ err' = "none"
    /\ errstr' = <<>>
    /\ returned' = ReturnedNone
    /\ calls' = <<>>
    /\ lastOp' = "assign"
    /\ lastArg' = NoState
    /\ NoStep
    /\ UNCHANGED <<registry, nextKey, ticks, pc, observers, directCalls>>

\* a World that is observed and used through the trackers of its entities
NextObserved ==
    \/ Observe
    \/ Build
    \/ TrackerSetAttr
    \/ AssignState
    \/ Remove
    \/ Clear
    \/ StepEntity
    \/ StepBegin
    \/ Examine
    \/ SweepEnd

SpecObserved == Init /\ [][NextObserved]_vars

\* a World whose entities get their physics with add or through a tracker
NextOverride ==
    \/ AddNew
    \/ TrackerSetPhysics
    \/ StepEntity
    \/ StepBegin
    \/ Examine
    \/ SweepEnd

SpecOverride == Init /\ [][NextOverride]_vars

\* ------------------------------------ a typed constructor of a World alone
\* slip: the world's batch_size is never filled in
WrapperKwargsAsGiven(world_batch_size, explicit, kwarg) == kwarg

\* kwargs['batch_size'] after lines 48-49 of buildadd: the world's value
\* unless the caller passed the keyword
WrapperKwargs(world_batch_size, explicit, kwarg) ==
    IF ~explicit THEN world_batch_size ELSE kwarg

\* the classes behind the typed constructors that are defined here
Constructors == {"Obstacle", "Burger"}

\* Obstacle.__init__ passes **kwargs on to State.__init__, which takes
\* batch_size; Burger.__init__(self, domain, velocity, viscosity=0.1) has no
\* such parameter
TakesBatchSize(constructor) == constructor = "Obstacle"

\* the State the constructor returns: a new trajectorykey, age 0
Constructed(tg) == NewState(MaxKeys + 1, tg)

\* what world.batch_size is set to
WorldBatchSizes == {0} \cup BatchSizes

\* a World with some members and a batch_size, and the keyword arguments of
\* a call of one of its typed constructors
InitBuildAdd ==
    /\ \E b \in WorldBatchSizes, sts \in OperandStates, c \in Constructors,
          explicit \in BOOLEAN, kwarg \in WorldBatchSizes :
        /\ ~explicit => kwarg = 0
        /\ buildadd = [NoBuildAdd EXCEPT !.batch_size = b, !.states = sts,
                                         !.constructor = c,
                                         !.explicit = explicit, !.kwarg = kwarg]
    /\ stepCall = NoStepCall
    /\ getItem = NoGetItem
    /\ domain = NoDomain
    /\ grid = NoGrid
    /\ geom = NoGeom
    /\ field = NoField
    /\ addition = NoAddition
    /\ WorldInit

\* world.batch_size = b
SetBatchSize ==
    /\ buildadd # NoBuildAdd
    /\ \E b \in WorldBatchSizes \ {buildadd.batch_size} :
           buildadd' = [buildadd EXCEPT !.batch_size = b]
    /\ UNCHANGED <<worldVars, stepCall, getItem, domain, grid, geom, field, addition>>

\* buildadd(*args, **kwargs): the keyword is filled in, the state is
\* constructed with it and added to the world; a constructor that does not
\* take the keyword raises a TypeError and nothing is added
BuildAddCall ==
    /\ buildadd # NoBuildAdd
    /\ ~buildadd.called
    /\ \E tg \in BuildPool :
        buildadd' =
            IF TakesBatchSize(buildadd.constructor)
            THEN [buildadd EXCEPT
                    !.called = TRUE,
                    !.found = buildadd.batch_size,
                    !.state = Constructed(tg),
                    !.state_batch_size = WrapperKwargs(buildadd.batch_size,
                                                       buildadd.explicit, buildadd.kwarg),
                    !.out = CollectiveAdd(buildadd.states, Constructed(tg))]
            ELSE [buildadd EXCEPT
                    !.called = TRUE,
                    !.found = buildadd.batch_size,
                    !.err = "TypeError",
                    !.out = buildadd.states]
    /\ UNCHANGED <<worldVars, stepCall, getItem, domain, grid, geom, field, addition>>

NextBuildAdd ==
    \/ SetBatchSize
    \/ BuildAddCall

SpecBuildAdd == InitBuildAdd /\ [][NextBuildAdd]_vars

\* ------------------------------------------------------------------ claims

\* what is left of the loops of a running collective step: the sweeps still
\* to come weigh more than any rest of a sweep
Remaining ==
    (Len(collectivestate.states) - sweep) * (Len(collectivestate.states) + 1)
        + Len(todo)

Dependencies(physics, cs) ==
    SelectSeq(cs, LAMBDA o : HasBlocking(physics) /\ physics.blk \in Range(o.tags))

\* C3: in a collective step every state handed to physics.step under the
\* blocking name is a state already computed in this tick, and every
\* pre-tick state the blocking entry refers to was stepped before the call
\* and is handed over in its advanced version.
C3_BlockingSeesCurrentTick ==
    lastOp = "step" =>
        \A n \in DOMAIN calls :
            LET c == calls[n]
                deps == Dependencies(For(registry, c.state), collectivestate.states)
            IN  /\ \A i \in DOMAIN c.args.blk : ContainsState(c.resolved, c.args.blk[i])
                /\ Len(c.args.blk) = Len(deps)
                /\ Keys(c.args.blk) = Keys(deps)
                /\ \A i \in DOMAIN deps :
                       \E m \in 1..(n - 1) : calls[m].state = deps[i]

\* a call that received an advanced state that differs from its pre-tick snapshot
C3_Witness ==
    /\ lastOp = "step"
    /\ \E n \in DOMAIN calls :
           /\ calls[n].args.hasBlk
           /\ Len(calls[n].args.blk) = 2
           /\ \A i \in DOMAIN calls[n].args.blk :
                  ~ContainsState(collectivestate.states, calls[n].args.blk[i])

\* C4: in a collective step every state handed to physics.step under the
\* non-blocking name is a member of the pre-tick collective, also when that
\* state has already been advanced in this tick.
C4_NonBlockingSeesPreTick ==
    lastOp = "step" =>
        \A n \in DOMAIN calls :
            /\ \A i \in DOMAIN calls[n].args.nbl :
                   ContainsState(collectivestate.states, calls[n].args.nbl[i])
            /\ calls[n].args.hasNbl =>
                   KeySeq(calls[n].args.nbl)
                     = KeySeq(GetByTag(collectivestate.states,
                                       For(registry, calls[n].state).nbl))

\* the dependency was advanced (to a different age) in an earlier sweep
C4_Witness ==
    /\ lastOp = "step"
    /\ dt # 0
    /\ \E n \in DOMAIN calls :
           /\ calls[n].args.hasNbl
           /\ calls[n].sweep > 0
           /\ calls[n].args.nbl # <<>>
           /\ \A i \in DOMAIN calls[n].args.nbl :
                  ContainsKey(partial, calls[n].args.nbl[i].key)

\* C5: a collective step that succeeds returns as many states as it was given
\* and its i-th state has the trajectorykey of the i-th input state.
C5_OrderPreserved ==
    StepReturned =>
        /\ Len(states) = Len(collectivestate.states)
        /\ KeySeq(states) = KeySeq(collectivestate.states)

\* the states were resolved in an order other than the input order
C5_Witness ==
    /\ StepReturned
    /\ Len(states) = 3
    /\ KeySeq([i \in DOMAIN calls |-> calls[i].state]) # KeySeq(states)

\* C6: no two member states of world.state share a trajectorykey, whatever
\* sequence of add, remove, step and clear calls was made.
C6_NoSharedKey == DistinctKeys(states)

\* C7: World.remove of a member state completes without error, with or
\* without a registered override; afterwards no member has its trajectorykey,
\* the registry has no entry for it and the other members keep their order.
C7_RemoveCompletes ==
    [][lastOp' = "remove" =>
         LET k == lastArg'.key
         IN  /\ err' = "none"
             /\ ~ContainsKey(states', k)
             /\ registry'[k] = NoPhysics
             /\ states' = SelectSeq(states, LAMBDA s : s.key # k)]_vars

C9_WholeStepAdvancesAges ==
    StepReturned =>
        /\ age = collectivestate.age + dt
        /\ Len(states) = Len(collectivestate.states)
        /\ \A i \in DOMAIN states :
               For(registry, states[i]).adv
                   => states[i].age = collectivestate.states[i].age + dt

\* two entities added at age 0 and then two whole-world steps with dt = 1
C9_Witness ==
    /\ StepReturned
    /\ ticks = 2
    /\ dt = 1
    /\ collectivestate.age = 1
    /\ age = 2
    /\ Len(states) = 2
    /\ \A i \in DOMAIN states : states[i].age = 2

\* C10: a whole-world step that raises leaves the member states, their order,
\* the collective's age and the registry as they were when it was called and
\* runs no observer; no step in progress touches them either.
C10_FailedStepLeavesWorld ==
    [][lastOp' = "step" =>
         /\ registry' = registry
         /\ (err' # "none" \/ pc' = "sweep") =>
                /\ states' = collectivestate'.states
                /\ age' = collectivestate'.age
                /\ ~notified']_vars

\* the error came after some states had been stepped to a different age
C10_Witness ==
    /\ lastOp = "step" /\ pc = "idle"
    /\ err = "cyclic"
    /\ dt # 0
    /\ calls # <<>>
    /\ For(registry, calls[1].state).adv

C12_AgeAdvancesByDt ==
    stepCall.out.kind = "state" => stepCall.out.val.age = stepCall.state.age + stepCall.dt

C14_EmptyStep ==
    (lastOp = "step" /\ pc = "idle" /\ collectivestate.states = <<>>)
    => /\ err = "none"
       /\ states = <<>>
       /\ age = collectivestate.age + dt
       /\ calls = <<>>
       /\ sweep = 0

\* an empty world stepped twice with dt = -1
C14_Witness ==
    /\ lastOp = "step" /\ pc = "idle"
    /\ collectivestate = [states |-> <<>>, age |-> -1]
    /\ dt = -1
    /\ age = -2
    /\ states = <<>>

\* the positions of the members that carry the tag, that have the key
TagMatches(sts, t) == {i \in DOMAIN sts : \E j \in DOMAIN sts[i].tags : sts[i].tags[j] = t}

KeyMatches(sts, k) == {i \in DOMAIN sts : sts[i].key = k}

\* C15: a lookup by tag never fails and returns the list of exactly the
\* members that carry the tag, in collective order (empty when there are
\* none); a lookup by trajectorykey returns the member with that key when
\* exactly one member has it and raises when none or more than one has it.
C15_Lookup ==
    getItem.out.kind # "not called" =>
        LET sts == getItem.states
            out == getItem.out
        IN  IF getItem.item.type = "str"
            THEN /\ out.kind = "list"
                 /\ Len(out.val) = Cardinality(TagMatches(sts, getItem.item.tag))
                 /\ \E f \in [DOMAIN out.val -> DOMAIN sts] :
                        /\ \A j \in DOMAIN out.val : out.val[j] = sts[f[j]]
                        /\ \A i, j \in DOMAIN out.val : i < j => f[i] < f[j]
                        /\ {f[j] : j \in DOMAIN out.val} = TagMatches(sts, getItem.item.tag)
            ELSE IF Cardinality(KeyMatches(sts, getItem.item.key)) = 1
                 THEN /\ out.kind = "state"
                      /\ \E i \in KeyMatches(sts, getItem.item.key) : out.val = <<sts[i]>>
                 ELSE out.kind = "raise"

\* the tag is carried by the first and the last of three members
C15_Witness ==
    /\ getItem.item = TagItem("b")
    /\ Len(getItem.states) = 3
    /\ TagMatches(getItem.states, "b") = {1, 3}
    /\ getItem.states[1].key # getItem.states[3].key
    /\ getItem.out.kind = "list"
    /\ getItem.out.val = <<getItem.states[1], getItem.states[3]>>

\* C16: the physics a collective step or a substep applies to a state is the
\* override registered for the state's trajectorykey when there is one (from
\* World.add(state, physics) or from the physics setter of its tracker) and
\* the state's default physics otherwise; registering an override for one
\* trajectorykey leaves the entries of all other trajectorykeys as they are.
C16_OverrideOrDefault ==
    [][/\ lastOp' \in {"step", "step_entity"} =>
              \A n \in DOMAIN calls' :
                  LET k == calls'[n].state.key
                  IN  calls'[n].physics = (IF registry'[k] # NoPhysics THEN registry'[k]
                                           ELSE STATIC)
       /\ lastOp' \in {"add", "set_physics"} =>
              \A j \in KeyRange \ {lastArg'.key} : registry'[j] = registry[j]]_vars

\* a whole-world step in which the second entity got BurgerPhysics from its
\* tracker and the first is stepped by its default physics
C16_Witness ==
    /\ StepReturned
    /\ dt = 1
    /\ Len(calls) = 2
    /\ calls[1].physics = STATIC
    /\ calls[2].state.tags = <<"b">>
    /\ calls[2].physics = BurgerPhysics
    /\ states[1].age = 1
    /\ states[2].age = 0

\* C17: every operation that replaces the world's collective state (add,
\* remove, clear, assigning world.state, setting an attribute through a
\* tracker, a whole-world or single-entity step that returns) calls every
\* registered observer, and each observer finds the new collective state in
\* world.state when it is called; world.state never changes otherwise.
C17_ObserversSeeNewState ==
    [][(/\ observers' = observers
        /\ \/ WorldState' # WorldState
           \/ lastOp' \in {"add", "remove", "clear", "assign"}
           \/ lastOp' \in {"set_attr", "step_entity"} /\ err' = "none"
           \/ lastOp' = "step" /\ pc' = "idle" /\ err' = "none")
       => observed' = [o \in observers |-> WorldState']]_vars

\* both observers were called in a remove that then raised, and saw the
\* collective without the removed state
C17_Witness ==
    /\ observers = {"f", "g"}
    /\ lastOp = "remove"
    /\ err = "KeyError"
    /\ Len(states) = 1
    /\ states[1].age = 1
    /\ observed = [o \in {"f", "g"} |-> WorldState]

\* the state of the tracker with trajectorykey k is the one member of
\* world.state that has this trajectorykey
TrackerIsCurrent(k) ==
    /\ Cardinality(KeyMatches(states, k)) = 1
    /\ TrackerState(states, k).kind = "state"
    /\ \A i \in KeyMatches(states, k) : TrackerState(states, k).val = <<states[i]>>

\* C18: the state of the StateTracker a typed constructor of the World
\* returns is the member of world.state with the tracker's trajectorykey,
\* right after the construction and after every whole-world and
\* single-entity step made from then on: it is the current member (current
\* age included), never an earlier snapshot.
C18_TrackerFollows ==
    [][\A k \in 1..nextKey' :
           /\ (lastOp' = "add" /\ nextKey' = nextKey + 1 /\ k = nextKey')
                  => TrackerIsCurrent(k)'
           /\ (lastOp' \in {"step", "step_entity"} /\ TrackerIsCurrent(k))
                  => TrackerIsCurrent(k)']_vars

\* as in test_simpleplume: world.step(), then world.step(first entity)
C18_Witness ==
    /\ lastOp = "step_entity" /\ err = "none"
    /\ ticks = 2
    /\ Len(states) = 2
    /\ TrackerIsCurrent(1) /\ TrackerIsCurrent(2)
    /\ TrackerState(states, 1).val[1].age = 2
    /\ TrackerState(states, 2).val[1].age = 1
    /\ age = 2

\* C19: a World.step call (whole-world or single-entity) with dt >= 0 lowers
\* no age: compared with the collective it was called on, the collective's
\* age and the age of the state of every trajectory (same position, same
\* trajectorykey) are the same or higher, while it runs and when it has
\* returned or raised; so ages never decrease along a sequence of such calls.
C19_AgesNeverDecrease ==
    (lastOp \in {"step", "step_entity"} /\ dt >= 0)
    => /\ age >= collectivestate.age
       /\ Len(states) = Len(collectivestate.states)
       /\ \A i \in DOMAIN states :
              /\ states[i].key = collectivestate.states[i].key
              /\ states[i].age >= collectivestate.states[i].age

\* a single-entity step with dt = 1 and then a whole-world step with dt = 0
C19_Witness ==
    /\ StepReturned
    /\ ticks = 2
    /\ dt = 0
    /\ collectivestate.age = 1
    /\ age = 1
    /\ Len(states) = 2
    /\ states[1].age = 1
    /\ states[2].age = 0
    /\ For(registry, states[2]).adv

\* the material the constructor argument gives the face (axis, upper)
SpecifiedMaterial(arg, axis, upper) ==
    IF arg.leaf THEN arg.m
    ELSE IF arg.elems[axis + 1].leaf THEN arg.elems[axis + 1].m
    ELSE arg.elems[axis + 1].elems[upper + 1].m

\* C20: for a Domain constructed with a valid boundaries argument, every
\* axis below its rank and both values of upper, surface_material(axis,
\* upper) returns the material the argument specifies for that face, also
\* when every axis has the same (lower, upper) pair with lower # upper.
C20_SurfaceMaterial ==
    domain.out.kind # "not called" =>
        /\ domain.out.kind = "material"
        /\ domain.out.val = SpecifiedMaterial(domain.arg, domain.axis, domain.upper)

\* C21: constructing a Domain raises when boundaries is None and when it is
\* a per-axis sequence whose length differs from the rank; and for every
\* Domain that is constructed, rank is len(resolution) and boundaries, when
\* stored as a per-axis sequence, has rank elements.
C21_BoundariesChecked ==
    domain.status \in {"constructed", "raise"} =>
        /\ (domain.arg = None) => domain.status = "raise"
        /\ (~domain.arg.leaf /\ Len(domain.arg.elems) # Len(Resolution(domain.res)))
               => domain.status = "raise"
        /\ domain.status = "constructed" =>
               /\ Rank(domain.resolution) = Len(Resolution(domain.res))
               /\ ~domain.boundaries.leaf =>
                      Len(domain.boundaries.elems) = Rank(domain.resolution)

\* every face of the boundaries argument has material m
AllFaces(arg, m) ==
    \/ arg = Leaf(m)
    \/ /\ ~arg.leaf
       /\ \A i \in DOMAIN arg.elems :
              arg.elems[i] \in {Leaf(m), Node(<<Leaf(m), Leaf(m)>>)}

\* C22: when the boundaries argument gives every face of the Domain the same
\* material (as one Material, as a per-axis sequence of it, or as a per-axis
\* sequence of (lower, upper) pairs of it), the Domain stores that single
\* Material as its boundaries.
C22_UniformCollapses ==
    domain.status = "constructed" =>
        \A m \in Materials : AllFaces(domain.arg, m) => domain.boundaries = Leaf(m)

\* as in test_boundary_definitions: [(OPEN, OPEN), (OPEN, OPEN)] is stored as OPEN
C22_Witness ==
    /\ domain.status = "constructed"
    /\ domain.arg = Node(<<Node(<<Leaf("OPEN"), Leaf("OPEN")>>),
                           Node(<<Leaf("OPEN"), Leaf("OPEN")>>)>>)
    /\ domain.boundaries = Leaf("OPEN")

\* C23: for every resolution, batch size b and component count c,
\* centered_shape gives the shape [b, *resolution, c], and staggered_shape
\* gives for each axis i a component of shape [b, *(resolution + unit(i)), 1];
\* resolution [4, 4] gives the component resolutions [5, 4] and [4, 5].
C23_Shapes ==
    /\ grid.method = "centered_shape" =>
           /\ Len(grid.shape) = Len(grid.resolution) + 2
           /\ grid.shape[1] = grid.batch_size
           /\ \A j \in DOMAIN grid.resolution : grid.shape[j + 1] = grid.resolution[j]
           /\ grid.shape[Len(grid.shape)] = grid.components
    /\ grid.method = "staggered_shape" =>
           /\ Len(grid.shapes) = Len(grid.resolution)
           /\ \A i \in DOMAIN grid.shapes :
                  /\ Len(grid.shapes[i]) = Len(grid.resolution) + 2
                  /\ grid.shapes[i][1] = grid.batch_size
                  /\ \A j \in DOMAIN grid.resolution :
                         grid.shapes[i][j + 1] =
                             grid.resolution[j] + (IF j = i THEN 1 ELSE 0)
                  /\ grid.shapes[i][Len(grid.shapes[i])] = 1

\* as in test_smoke_initializers: a 4 x 4 domain
C23_Witness ==
    /\ grid.method = "staggered_shape"
    /\ grid.resolution = <<4, 4>>
    /\ grid.shapes = << <<1, 5, 4, 1>>, <<1, 4, 5, 1>> >>

\* pts has the face coordinates 0..resolution[d] along axis d (counted from
\* 0) and half-integer coordinates along every other axis
FacePoints(resolution, d, pts) ==
    /\ Len(pts) = Len(resolution)
    /\ pts[d + 1] = [i \in 1..(resolution[d + 1] + 1) |-> 2 * (i - 1)]
    /\ \A j \in DOMAIN resolution \ {d + 1} :
           \A i \in DOMAIN pts[j] : pts[j][i] % 2 = 1

\* C24: for every resolution and every axis d below the rank,
\* staggered_points(d) has the integer coordinates 0..resolution[d] along
\* axis d and cell-centre (half-integer) coordinates along every other axis,
\* so that sample_grid(grid, staggered=True) samples component d at the face
\* points of axis d.
C24_StaggeredPoints ==
    /\ grid.method = "staggered_points" =>
           FacePoints(grid.resolution, grid.dimension, grid.points)
    /\ grid.method = "sample_grid staggered" =>
           \A d \in DOMAIN grid.locs : FacePoints(grid.resolution, d - 1, grid.locs[d])

\* the bounds start and stop of entry i of a box[...] expression: a number k
\* counts as k:k+1
StartOf(item, i) == item.dims[i].start

StopOf(item, i) ==
    IF item.dims[i].type = "int" THEN item.dims[i].start + 1 ELSE item.dims[i].stop

\* C25: the Box that box[start_1:stop_1, ...] gives (a number k counting as
\* k:k+1) has origin start and size stop - start, and its value_at(p) is 1
\* when start_i <= p_i <= stop_i on every axis and 0 otherwise; for
\* box[0:2, 6:10] it is 1 at (1, 7) and 0 at (5, 5).
C25_BoxValueAt ==
    /\ geom.box # NoBox =>
           /\ Len(geom.box.origin) = Len(geom.item.dims)
           /\ Len(geom.box.size) = Len(geom.item.dims)
           /\ \A i \in DOMAIN geom.item.dims :
                  /\ geom.box.origin[i] = StartOf(geom.item, i)
                  /\ geom.box.size[i] = StopOf(geom.item, i) - StartOf(geom.item, i)
    /\ geom.called =>
           /\ geom.out \in {0, 1}
           /\ geom.out = 1 <=>
                  \A i \in DOMAIN geom.item.dims :
                      /\ StartOf(geom.item, i) <= geom.location[i]
                      /\ geom.location[i] <= StopOf(geom.item, i)
           /\ (geom.item = TupleItem(<<SliceDim(0, 2), SliceDim(6, 10)>>)
               /\ geom.location = <<5, 5>>) => geom.out = 0

\* box[0:2, 6:10].value_at((2, 10)): a corner of the box
C25_Witness ==
    /\ geom.called
    /\ geom.item = TupleItem(<<SliceDim(0, 2), SliceDim(6, 10)>>)
    /\ geom.box = Box(<<0, 6>>, <<2, 4>>)
    /\ geom.location = <<2, 10>>
    /\ geom.out = 1

\* location is inside the box: between origin and origin + size on every axis
Inside(box, location) ==
    \A i \in DOMAIN location :
        box.origin[i] <= location[i] /\ location[i] <= box.origin[i] + box.size[i]

\* C26: to_field returns a Field as it is, turns a number v into a field
\* that samples to v at every location, turns a Geometry into a field that
\* samples to 1 at the locations inside it and to 0 outside, and raises
\* ValueError for an argument of any other type.
C26_ToField ==
    field.out.kind # "not called" =>
        /\ field.value.type \in FieldTypes =>
               field.out = [kind |-> "field", val |-> field.value]
        /\ field.value.type = "Number" =>
               /\ field.out.kind = "field"
               /\ field.sampled => field.sample = field.value.number
        /\ field.value.type \in GeometryTypes =>
               /\ field.out.kind = "field"
               /\ field.sampled =>
                      field.sample = IF Inside(field.value.bounds, field.location)
                                     THEN 1 ELSE 0
        /\ field.value.type \in OtherTypes => field.out.kind = "ValueError"

\* to_field(box[0:2, 6:10]) sampled at (5, 5), outside the box
C26_Witness ==
    /\ field.sampled
    /\ field.value = Value("Box", 0, Box(<<0, 6>>, <<2, 4>>))
    /\ field.location = <<5, 5>>
    /\ field.sample = 0

\* the physics.step calls that were made in sweep k
CallsIn(k) == {i \in DOMAIN calls : calls[i].sweep = k}

\* sweep k of the running or finished step has examined all its states
SweepOver(k) == k < sweep \/ (k = sweep /\ todo = <<>> /\ err # "cardinality")

\* sweep k is over, has resolved no state and has left states unresolved
Unproductive(k) ==
    /\ SweepOver(k)
    /\ CallsIn(k) = {}
    /\ Cardinality({i \in DOMAIN calls : calls[i].sweep < k}) < Len(collectivestate.states)

\* C27: CollectivePhysics.step raises the cyclic-dependency error exactly
\* when some sweep ends with states unresolved and none resolved in it; after
\* such a sweep no later sweep resolves a state, so the step ends with the
\* cyclic error and the world as it was, as it would have at that sweep.
C27_CyclicIffUnproductive ==
    (lastOp = "step" /\ Len(collectivestate.states) > 0) =>
        /\ (pc = "idle" /\ err = "cyclic") => \E k \in 0..sweep : Unproductive(k)
        /\ \A k \in 0..sweep :
               Unproductive(k) =>
                   /\ \A j \in k..sweep : CallsIn(j) = {}
                   /\ pc = "idle" =>
                          /\ err = "cyclic"
                          /\ states = collectivestate.states
                          /\ age = collectivestate.age

\* one state is resolved in sweep 0, sweeps 1 and 2 resolve none of the other two
C27_Witness ==
    /\ lastOp = "step" /\ pc = "idle" /\ err = "cyclic"
    /\ Len(collectivestate.states) = 3
    /\ sweep = 2
    /\ Len(calls) = 1
    /\ Unproductive(1)
    /\ Unproductive(2)

\* C28: within a sweep the result of a stepped state counts as resolved at
\* once: a state examined later in the same sweep whose blocking dependencies
\* are all among the states stepped so far is stepped in that sweep.
C28_SameSweep ==
    [][(/\ pc = "sweep" /\ todo # <<>>
        /\ pc' = "sweep" /\ todo' = Tail(todo)
        /\ AllDependenciesFulfilled(For(registry, Head(todo)), collectivestate.states,
                                    next_states))
       => Len(next_states') = Len(next_states) + 1]_vars

\* the number of physics.step calls made on the state s
TimesStepped(s) == Cardinality({i \in DOMAIN calls : calls[i].state = s})

\* C29: during one CollectivePhysics.step call physics.step is invoked at
\* most once on each member state and, when the call returns, exactly once;
\* the unresolved list holds the members not stepped so far, so no state is
\* stepped again in a later sweep and none comes back into the list.
C29_SteppedOnce ==
    (lastOp = "step" /\ Len(collectivestate.states) > 0) =>
        /\ \A i \in DOMAIN calls : ContainsState(collectivestate.states, calls[i].state)
        /\ \A i \in DOMAIN collectivestate.states :
               TimesStepped(collectivestate.states[i]) <= 1
        /\ pc = "sweep" =>
               unhandled_states =
                   SelectSeq(collectivestate.states, LAMBDA s : TimesStepped(s) = 0)
        /\ StepReturned =>
               \A i \in DOMAIN collectivestate.states :
                   TimesStepped(collectivestate.states[i]) = 1

\* a returned step of three states that took three sweeps
C29_Witness ==
    /\ StepReturned
    /\ Len(collectivestate.states) = 3
    /\ Len(calls) = 3
    /\ calls[1].sweep = 0 /\ calls[2].sweep = 1 /\ calls[3].sweep = 2
    /\ calls[1].state = collectivestate.states[3]

\* out is made of the members of sts at the positions idx, in collective order
IsSelection(out, sts, idx) ==
    /\ Len(out) = Cardinality(idx)
    /\ \E f \in [DOMAIN out -> DOMAIN sts] :
           /\ \A j \in DOMAIN out : out[j] = sts[f[j]]
           /\ \A i, j \in DOMAIN out : i < j => f[i] < f[j]
           /\ {f[j] : j \in DOMAIN out} = idx

\* C30: a substep made without a partial next collective, as by
\* World.step(entity, dt) and World.stepped(entity, dt), hands physics.step
\* an entry for every dependency name the physics declares, the blocking one
\* included, each gathered from the world's current collective by the rules
\* of a collective step: by tag all members with the tag, by identity the one
\* member with the trajectorykey.
C30_SubstepGathersAll ==
    (lastOp \in {"step_entity", "stepped_entity"} /\ err = "none") =>
        /\ Len(calls) = 1
        /\ LET c == calls[1]
               physics == calls[1].physics
               cs == collectivestate.states
           IN  /\ c.state = lastArg
               /\ c.args.hasBlk <=> physics.blk # ""
               /\ physics.blk # "" =>
                      IsSelection(c.args.blk, cs, TagMatches(cs, physics.blk))
               /\ c.args.hasNbl <=> (physics.nbl # "" \/ physics.nblkey # 0)
               /\ physics.nblkey # 0 =>
                      IsSelection(c.args.nbl, cs, KeyMatches(cs, physics.nblkey))
               /\ (physics.nblkey = 0 /\ physics.nbl # "") =>
                      IsSelection(c.args.nbl, cs, TagMatches(cs, physics.nbl))

\* world.stepped(entity) for an entity with a blocking dependency on the tag
\* of both entities and a non-blocking dependency on the other entity
C30_Witness ==
    /\ lastOp = "stepped_entity" /\ err = "none"
    /\ Len(states) = 2
    /\ lastArg = states[1]
    /\ calls[1].physics = BlockingAndNonBlockingKey("a", 2)
    /\ calls[1].args.hasBlk /\ calls[1].args.hasNbl
    /\ calls[1].args.blk = states
    /\ calls[1].args.nbl = <<states[2]>>

\* ---------------------------------------------------------------------------
\* the states that a step which raised had already stepped
SteppedStates == {calls[i].state : i \in DOMAIN calls}

Unstepped(state) == state \notin SteppedStates

DiagnosticStates == [i \in DOMAIN errstr |-> errstr[i].state]

\* the diagnostic has one line for each state that was not stepped, in the
\* order of the input, each with the physics that is in force for it
C31_ListsUnstepped ==
    err = "cyclic" =>
        /\ DiagnosticStates = SelectSeq(collectivestate.states, Unstepped)
        /\ \A i \in DOMAIN errstr :
               errstr[i].physics = For(registry, errstr[i].state)

\* C31: the diagnostic of a cyclic step lists exactly the states that were
\* not stepped, each with its physics, and under each of them only the
\* states of its blocking dependency that are still unresolved, none that
\* was already stepped
C31_Diagnostic ==
    err = "cyclic" =>
        /\ DiagnosticStates = SelectSeq(collectivestate.states, Unstepped)
        /\ \A i \in DOMAIN errstr :
               /\ errstr[i].physics = For(registry, errstr[i].state)
               /\ errstr[i].depends_on =
                      SelectSeq(GatherBlocking(errstr[i].physics, collectivestate.states),
                                Unstepped)

\* C32: a + b holds the states of the left operand followed by the states of
\* the right operand, each in their own order, whether the CollectiveState is
\* the left operand or the right operand of a State, a tuple or a list
C32_AdditionKeepsOrder ==
    (/\ addition.out.kind # "not called"
     /\ addition.left.type # "int"
     /\ addition.right.type # "int")
        => /\ addition.out.kind = "CollectiveState"
           /\ addition.out.states = addition.left.states \o addition.right.states

\* with the CollectiveState on the left the sum is in operand order
C32_LeftOperand ==
    (/\ addition.out.kind # "not called"
     /\ addition.left.type = "CollectiveState"
     /\ addition.right.type # "int")
        => /\ addition.out.kind = "CollectiveState"
           /\ addition.out.states = addition.left.states \o addition.right.states

\* the advanced versions of the members of cs that carry the tag, in the
\* order of cs
AdvancedWithTag(cs, reg, tag, d) ==
    LET members == GetByTag(cs, tag)
    IN  [j \in DOMAIN members |-> PhysicsStep(For(reg, members[j]), members[j], d)]

\* C33: the list a physics.step call of a collective step is given for a
\* blocking tag dependency holds the advanced versions of exactly the
\* pre-tick members with that tag, in the order they have in the input
\* collective, whatever the sweeps they were stepped in
C33_BlockingArgsInInputOrder ==
    lastOp = "step" =>
        \A i \in DOMAIN calls :
            calls[i].args.hasBlk =>
                calls[i].args.blk =
                    AdvancedWithTag(collectivestate.states, registry,
                                    calls[i].physics.blk, dt)

\* the same states are passed, whatever their order
C33_BlockingArgsAsSet ==
    lastOp = "step" =>
        \A i \in DOMAIN calls :
            calls[i].args.hasBlk =>
                /\ Range(calls[i].args.blk) =
                       Range(AdvancedWithTag(collectivestate.states, registry,
                                             calls[i].physics.blk, dt))
                /\ Len(calls[i].args.blk) =
                       Len(GetByTag(collectivestate.states, calls[i].physics.blk))

\* the trajectorykeys that have an entry in world.physics.physics
RegistryKeys == {k \in KeyRange : registry[k] # NoPhysics}

\* C34: whatever was added, removed, stepped, cleared or assigned through a
\* StateTracker, every trajectorykey with an entry in the registry is the
\* key of a state in world.state
C34_RegistryKeysAreMembers ==
    \A k \in RegistryKeys : ContainsKey(states, k)

\* the last operation left world.state as it found it and called no observer
WorldUntouched ==
    /\ states = collectivestate.states
    /\ age = collectivestate.age
    /\ ~notified
    /\ observed = NotObserved

\* what World.step(entity, dt) returns for the entity and the world that the
\* last operation was called with
StepWouldReturn ==
    Returned(Substep(For(registry, lastArg), lastArg, collectivestate.states,
                     dt, FALSE, <<>>).next)

\* World.stepped(entity, dt) returns the state World.step(entity, dt) returns
\* and leaves the world as it was
C35_SteppedEntity ==
    (lastOp = "stepped_entity" /\ err = "none") =>
        /\ returned = StepWouldReturn
        /\ WorldUntouched

\* a whole-world step of the collective would end without an exception
StepWouldSucceed(cs, reg) ==
    /\ ~HasCycle(cs, reg)
    /\ \A i \in DOMAIN cs : GatherOk(For(reg, cs[i]), cs)

\* C35: World.stepped(None, dt) returns the collective that World.step(dt)
\* would install and World.stepped(entity, dt) the state that
\* World.step(entity, dt) would return, and neither changes world.state or
\* calls an observer
C35_Stepped ==
    /\ (lastOp = "stepped" /\ StepWouldSucceed(collectivestate.states, registry)) =>
           /\ returned.kind = "collective"
           /\ WorldUntouched
    /\ (lastOp = "stepped_entity" /\ err = "none") =>
           /\ returned = StepWouldReturn
           /\ WorldUntouched

\* a step of a State that is no member leaves every member as it was
C36_MembersKept ==
    (lastOp = "step_nonmember" /\ err = "none") =>
        states = collectivestate.states

\* C36: World.step(state, dt) with a State that is not a member of
\* world.state changes neither a member state nor the age of the collective
C36_NonMemberStepChangesNothing ==
    (lastOp = "step_nonmember" /\ err = "none") =>
        /\ states = collectivestate.states
        /\ age = collectivestate.age

\* after a whole-world step of entities that were all added before it, every
\* member has the age of the collective
C37_EqualAfterWorldStep ==
    (StepReturned /\ dt >= 0) => \A i \in DOMAIN states : states[i].age = age

\* C37: in a world that entities of age 0 are added to and that is stepped,
\* as a whole or one entity at a time, with dt >= 0 by age-advancing physics,
\* no member is older than the collective
C37_MemberAgesBounded ==
    \A i \in DOMAIN states : states[i].age <= age

\* C38: a typed constructor of a World called without batch_size makes a
\* state with the batch_size the world had at the call, a batch_size that is
\* passed is the state's whatever the world's is, and the state is added as
\* one new member after the members the world had
C38_BuildAdd ==
    (buildadd.called /\ buildadd.err = "none") =>
        /\ ~buildadd.explicit => buildadd.state_batch_size = buildadd.found
        /\ buildadd.explicit => buildadd.state_batch_size = buildadd.kwarg
        /\ Len(buildadd.out) = Len(buildadd.states) + 1
        /\ SubSeq(buildadd.out, 1, Len(buildadd.states)) = buildadd.states
        /\ buildadd.out[Len(buildadd.out)] = buildadd.state
        /\ ~ContainsState(buildadd.states, buildadd.state)

\* a world of batch_size 2 with members, later set to another batch_size,
\* whose constructor was called without the keyword
C38_Witness ==
    /\ buildadd.called
    /\ buildadd.err = "none"
    /\ ~buildadd.explicit
    /\ buildadd.found = 2
    /\ buildadd.batch_size # buildadd.found
    /\ Len(buildadd.states) = MaxStates

====
